---- MODULE Spec2Model ----
(***************************************************************************)
(* State-machine model of the storage core of the dahhan ECS:              *)
(*   - GenerationalIndexAllocator   (src/src/ecs/generational_array.rs)    *)
(*   - BlobVec                      (src/src/ecs/storage/blob_vec.rs)      *)
(*   - SparseArray                  (src/src/ecs/storage/sparse_set.rs)    *)
(*   - ComponentSparseSet           (src/src/ecs/component.rs)             *)
(* Rust indices are 0-based; position i of a Vec is element i + 1 of the   *)
(* sequence that models it.  Option<T> is a sequence of length 0 or 1.     *)
(***************************************************************************)
EXTENDS Integers, Sequences, FiniteSets, TLC

VARIABLES
    entries,        \* GenerationalIndexAllocator.entries : Vec<AllocatorEntry>
    free,           \* GenerationalIndexAllocator.free    : Vec<usize>
    issued,         \* history: the handles allocate has returned
    retired,        \* history: issued handles for which deallocate returned true
    allocRet,       \* history: the last allocator call and what it returned
    item_layout,    \* BlobVec.item_layout : Layout
    data,           \* BlobVec.data, read as the Vec<T> it was transmuted from
    pushed,         \* history: the values pushed, while only push has written
    pushOnly,       \* history: no swap_remove and no write through get_mut yet
    blobRet,        \* history: the last BlobVec call and what it returned
    destructed,     \* history: the destructor calls made when the BlobVec drops
    cs_sparse,      \* ComponentSparseSet.sparse.values : Vec<Option<usize>>
    cs_entities,    \* ComponentSparseSet.entities : Vec<Entity>
    cs_dense,       \* ComponentSparseSet.dense, the elements of the BlobVec
    cs_inserted,    \* history: per entity, the value of its latest insert
    csRet,          \* history: the last ComponentSparseSet call
    sa_values,      \* SparseArray.values : Vec<Option<V>>
    sa_map,         \* history: per key, the value of its latest insert not removed
    saRet,          \* history: the last SparseArray call and what it returned
    components_info,\* World.components_info : ComponentsInfo
    components,     \* World.components : Components
    registered,     \* history: the registrations made, as (type, returned id)
    added,          \* history: the number of add_component calls made
    worldRet,       \* history: the last call on the World and what it returned
    q_state,        \* "none", "iterating" or "done": the Query of the system
    q_accessor,     \* the accessor type T of the Query<T>, as its members
    q_entities,     \* Query.entities : Vec<Entity>
    q_pos,          \* the number of entities the iterator has consumed
    q_item,         \* the last value next() returned: None or Some(item)
    q_yielded,      \* history: the entities of the items yielded so far
    q_prev,         \* history: what the Query before this one yielded, when it
                    \* had the same accessor type and no add_component came since
    mixedRet,       \* history: the last query::<&T>() or query::<(&T1, &T2)>()
                    \* and the items its iterator yielded
    events_a,       \* Events.events_a : EventSequence<E>
    events_b,       \* Events.events_b : EventSequence<E>
    event_count,    \* Events.event_count : usize
    cursor,         \* the Local<usize> cursor of the system's EventReader
    it_open,        \* an EventIterator returned by read() is alive
    it_chain,       \* EventIterator.chain, the events it has still to yield
    it_unread,      \* EventIterator.unread : usize
    ev_sent,        \* history: every event sent, in the order of the sends
    ev_yielded,     \* history: every event the reader was yielded, in order
    ev_hist,        \* history: what the calls so far did (updates, drains)
    it_read,        \* history: the latest read() and what it has yielded
    evRet,          \* history: the last call on Events or the iterator
    systems,        \* Scheduler.systems : Vec<Box<dyn System>>
    sched_log,      \* history: what the latest Scheduler::run did, in order
    sched_inits,    \* history: per system, the init_state calls made for it
    sched_left,     \* history: per system, the state its latest run left
    sched_calls,    \* history: the number of Scheduler calls made
    schedRet,       \* history: the last Scheduler call and how it ended
    update_functions, \* EventRegistry.update_functions, as the event types
    events_inserted,\* the Events<SomeEvent> resource is stored in the World
    er_rotations,   \* history: per event type, the Events::update calls the
                    \* latest update_events made
    resources,      \* World.resources : AnyMap of RwLock<T>, per type
    res_last,       \* history: per type, the value last inserted or written
    resRet,         \* history: the last resource call and what it returned
    rs_log          \* history: per system of the latest run over resources,
                    \* the World it started on, the guards it held, the
                    \* values it was given and the World it left

allocVars == <<entries, free, issued, retired, allocRet>>

blobVars == <<item_layout, data, pushed, pushOnly, blobRet, destructed>>

csVars == <<cs_sparse, cs_entities, cs_dense, cs_inserted, csRet>>

saVars == <<sa_values, sa_map, saRet>>

worldVars == <<components_info, components, registered, added, worldRet>>

queryVars == <<q_state, q_accessor, q_entities, q_pos, q_item, q_yielded, q_prev>>

eventVars == <<events_a, events_b, event_count, cursor, it_open, it_chain,
               it_unread, ev_sent, ev_yielded, ev_hist, it_read, evRet>>

schedVars == <<systems, sched_log, sched_inits, sched_left, sched_calls, schedRet>>

erVars == <<update_functions, events_inserted, er_rotations>>

resVars == <<resources, res_last, resRet, rs_log>>

vars == <<allocVars, blobVars, csVars, saVars, worldVars, queryVars, mixedRet, eventVars, schedVars,
          erVars, resVars>>

None == <<>>

Some(v) == <<v>>

(***************************************************************************)
(* Bounds of the model.                                                    *)
(***************************************************************************)
\* u64::MAX of the generation counter, on a narrow counter
GenMax == 2

\* the allocator grows to at most this many entries
MaxEntries == 1

\* a BlobVec grows to at most this many elements
MaxLen == 3

\* the element values (bit patterns of one element) are 1..MaxVal
MaxVal == 2

\* the entities given to a ComponentSparseSet have sparse indices 0..MaxEntity
MaxEntity == 2

\* the keys given to a SparseArray have sparse indices 0..MaxKey
MaxKey == 2

\* a World registers at most this many component ids
MaxComponents == 3

\* the entities of a World have sparse indices 0..MaxWorldEntity
MaxWorldEntity == 1

\* add_component is called at most this many times before and between the
\* queries of a World
MaxAdded == 3

\* the events sent carry the values 0..MaxEventVal
MaxEventVal == 1

\* send is called at most this many times on an Events<E>
MaxEvents == 3

\* update is called at most this many times on an Events<E>
MaxUpdates == 2

\* a Scheduler is given at most this many systems
MaxSystems == 3

\* register_event is called at most this many times on an EventRegistry
MaxRegistered == 3

\* the resources hold the values 0..MaxResVal
MaxResVal == 1

\* at most this many read guards of one resource are alive at a time
MaxReaders == 2

\* initialize and run are called at most this many times on a Scheduler
MaxSchedCalls == 4

\* the World of a Scheduler has at most this many entities, all of them
\* holding a SomeComponent
MaxSchedEntities == 1

\* add_component is called at most this many times before the queries of
\* src/src/ecs/mod.rs, for entities of sparse indices 0..MaxMixedEntity
MaxMixedAdded == 4

MaxMixedEntity == 2

\* add_component is called at most this many times while registrations
\* are followed
MaxRegAdded == 1

\* a ComponentSparseSet grows to at most this many dense elements
MaxDense == 3

(***************************************************************************)
(* GenerationalIndexAllocator                                              *)
(***************************************************************************)
GenerationalIndex(i, g) == [index |-> i, generation |-> g]

AllocatorEntry(l, g) == [is_live |-> l, generation |-> g]

\* the handles a caller can hold: those of this allocator, and handles that
\* another allocator of the same type issued (any index, any generation)
Handles == { GenerationalIndex(i, g) : i \in 0..MaxEntries, g \in 0..GenMax }

NoHandle == [index |-> -1, generation |-> -1]

\* Vec::pop on a non-empty vector: the vector without its last element
PopBack(s) == SubSeq(s, 1, Len(s) - 1)

\* u64::wrapping_add(1) on the narrow counter
wrapping_add(g) == Some((g + 1) % (GenMax + 1))

\* a counter that is not advanced at all
no_add(g) == Some(g)

\* u64::checked_add(1): None on overflow
checked_add(g) == IF g = GenMax THEN None ELSE Some(g + 1)

is_live(es, h) ==
    IF h.index < Len(es)
    THEN es[h.index + 1].is_live /\ es[h.index + 1].generation = h.generation
    ELSE FALSE

\* allocate that restarts a reused slot at generation 0
allocate_fresh_generation(es, fr) ==
    IF fr # <<>>
    THEN LET index == fr[Len(fr)]
         IN  [entries |-> [es EXCEPT ![index + 1] = AllocatorEntry(TRUE, 0)],
              free    |-> PopBack(fr),
              status  |-> "ok",
              handle  |-> GenerationalIndex(index, 0)]
    ELSE [entries |-> Append(es, AllocatorEntry(TRUE, 0)),
          free    |-> fr,
          status  |-> "ok",
          handle  |-> GenerationalIndex(Len(es), 0)]

\* allocate: the allocator after the call and the handle returned
allocate(es, fr) ==
    IF fr # <<>>
    THEN LET index == fr[Len(fr)]
             id_entry == es[index + 1]
         IN  IF id_entry.is_live
             THEN \* assert!(!id_entry.is_live) fails after free.pop()
                  [entries |-> es, free |-> PopBack(fr),
                   status |-> "panic", handle |-> NoHandle]
             ELSE [entries |-> [es EXCEPT ![index + 1].is_live = TRUE],
                   free    |-> PopBack(fr),
                   status  |-> "ok",
                   handle  |-> GenerationalIndex(index, id_entry.generation)]
    ELSE [entries |-> Append(es, AllocatorEntry(TRUE, 0)),
          free    |-> fr,
          status  |-> "ok",
          handle  |-> GenerationalIndex(Len(es), 0)]

\* deallocate without the is_live test
deallocate_dead_too(es, fr, h) ==
    IF h.index >= Len(es)
    THEN [entries |-> es, free |-> fr, status |-> "ok", ret |-> FALSE]
    ELSE LET next == checked_add(es[h.index + 1].generation)
         IN  IF next = None
             THEN [entries |-> [es EXCEPT ![h.index + 1].is_live = FALSE],
                   free |-> fr, status |-> "panic", ret |-> FALSE]
             ELSE [entries |-> [es EXCEPT ![h.index + 1] =
                                   AllocatorEntry(FALSE, next[1])],
                   free |-> Append(fr, h.index), status |-> "ok", ret |-> TRUE]

\* deallocate: the allocator after the call and the value returned; on the
\* overflow panic is_live has already been cleared (line 63 precedes 64-67)
deallocate(es, fr, h) ==
    IF h.index >= Len(es)
    THEN [entries |-> es, free |-> fr, status |-> "ok", ret |-> FALSE]
    ELSE IF ~es[h.index + 1].is_live
    THEN [entries |-> es, free |-> fr, status |-> "ok", ret |-> FALSE]
    ELSE LET next == checked_add(es[h.index + 1].generation)
         IN  IF next = None
             THEN [entries |-> [es EXCEPT ![h.index + 1].is_live = FALSE],
                   free |-> fr, status |-> "panic", ret |-> FALSE]
             ELSE [entries |-> [es EXCEPT ![h.index + 1] =
                                   AllocatorEntry(FALSE, next[1])],
                   free |-> Append(fr, h.index), status |-> "ok", ret |-> TRUE]

AllocInit ==
    /\ entries = <<>>
    /\ free = <<>>
    /\ issued = {}
    /\ retired = {}
    /\ allocRet = [op |-> "new", arg |-> NoHandle, status |-> "ok",
                   handle |-> NoHandle, ret |-> FALSE]

\* GenerationalIndexAllocator::allocate; the entries vector is capped
Allocate ==
    /\ free # <<>> \/ Len(entries) < MaxEntries
    /\ LET r == allocate(entries, free)
       IN  /\ entries' = r.entries
           /\ free' = r.free
           /\ issued' = IF r.status = "ok" THEN issued \cup {r.handle} ELSE issued
           /\ allocRet' = [op |-> "allocate", arg |-> NoHandle,
                           status |-> r.status, handle |-> r.handle,
                           ret |-> FALSE]
    /\ UNCHANGED <<retired, blobVars, csVars, saVars, worldVars, queryVars, mixedRet, eventVars, schedVars, erVars, resVars>>

\* GenerationalIndexAllocator::deallocate(h).  A panic unwinds and leaves
\* the allocator as the partial execution wrote it.
Deallocate(h) ==
    /\ LET r == deallocate(entries, free, h)
       IN  /\ entries' = r.entries
           /\ free' = r.free
           /\ retired' = IF r.ret /\ h \in issued THEN retired \cup {h} ELSE retired
           /\ allocRet' = [op |-> "deallocate", arg |-> h,
                           status |-> r.status, handle |-> NoHandle,
                           ret |-> r.ret]
    /\ UNCHANGED <<issued, blobVars, csVars, saVars, worldVars, queryVars, mixedRet, eventVars, schedVars, erVars, resVars>>

\* GenerationalIndexAllocator::is_live(h): a read
IsLive(h) ==
    /\ allocRet' = [op |-> "is_live", arg |-> h, status |-> "ok",
                    handle |-> NoHandle, ret |-> is_live(entries, h)]
    /\ UNCHANGED <<entries, free, issued, retired, blobVars, csVars, saVars, worldVars, queryVars, mixedRet, eventVars, schedVars, erVars, resVars>>

AllocNext ==
    \/ Allocate
    \/ \E h \in Handles : Deallocate(h)
    \/ \E h \in Handles : IsLive(h)

(***************************************************************************)
(* BlobVec                                                                 *)
(***************************************************************************)
\* the element types the callers instantiate the generic methods with
Types == {"SomeComponent", "OtherComponent", "PackedComponent"}

\* Layout::new::<T>(): size and alignment of T.  SomeComponent is the test
\* component { something: u32 }; OtherComponent is a second type of the same
\* layout; PackedComponent is [u16; 2], same size and another alignment.
Layout(T) ==
    IF T = "PackedComponent"
    THEN [size |-> 4, align |-> 2]
    ELSE [size |-> 4, align |-> 4]

Values == 1..MaxVal

Indices == 0..MaxLen

\* the outcomes of ptr::swap_nonoverlapping on two regions that overlap
\* (undefined behaviour): the bytes are left as they were, or the
\* precondition check of a debug build aborts the process
OverlapOutcomes == {"ok", "abort"}

\* push with the values stored in front
push_front(layout, d, T, item) ==
    IF Layout(T) # layout
    THEN [data |-> d, status |-> "panic"]
    ELSE [data |-> <<item>> \o d, status |-> "ok"]

\* push without the layout assertion
push_unchecked(layout, d, T, item) ==
    [data |-> Append(d, item), status |-> "ok"]

\* BlobVec::push::<T>(item)
push(layout, d, T, item) ==
    IF Layout(T) # layout
    THEN [data |-> d, status |-> "panic"]
    ELSE [data |-> Append(d, item), status |-> "ok"]

\* BlobVec::get::<T>(index)
get(layout, d, T, index) ==
    IF Layout(T) # layout
    THEN [status |-> "panic", val |-> None]
    ELSE [status |-> "ok",
          val |-> IF index < Len(d) THEN Some(d[index + 1]) ELSE None]

\* BlobVec::get_mut::<T>(index): the element the returned reference points at
get_mut(layout, d, T, index) ==
    IF Layout(T) # layout
    THEN [status |-> "panic", val |-> None]
    ELSE [status |-> "ok",
          val |-> IF index < Len(d) THEN Some(d[index + 1]) ELSE None]

\* BlobVec::iter::<T>(): the elements the iterator yields, in order
iter(layout, d, T) ==
    IF Layout(T) # layout
    THEN [status |-> "panic", val |-> None]
    ELSE [status |-> "ok", val |-> d]

\* BlobVec::iter_mut::<T>(): the elements the iterator yields, in order
iter_mut(layout, d, T) ==
    IF Layout(T) # layout
    THEN [status |-> "panic", val |-> None]
    ELSE [status |-> "ok", val |-> d]

\* BlobVec::len
len(d) == Len(d)

\* BlobVec::swap_remove(index).  overlap is the outcome the build produces
\* when the two regions handed to swap_nonoverlapping are the same region
\* (index is the last element of a buffer of two or more).
swap_remove(layout, d, index, overlap) ==
    IF Len(d) = 1
    THEN \* set_len(0) and return, whatever index is
         [data |-> <<>>, status |-> "ok"]
    ELSE IF index >= Len(d)
    THEN [data |-> d, status |-> "panic"]
    ELSE IF index = Len(d) - 1 /\ layout.size > 0 /\ overlap = "abort"
    THEN [data |-> d, status |-> "abort"]
    ELSE [data |-> [j \in 1..(Len(d) - 1) |->
                       IF j = index + 1 THEN d[Len(d)] ELSE d[j]],
          status |-> "ok"]

BlobRet(op, T, index, item, status, val) ==
    [op |-> op, type |-> T, index |-> index, item |-> item,
     status |-> status, val |-> val]

\* BlobVec::new::<T>()
BlobNew(T) ==
    /\ item_layout = Layout(T)
    /\ data = <<>>
    /\ pushed = <<>>
    /\ pushOnly = TRUE
    /\ blobRet = BlobRet("new", T, 0, 0, "ok", None)
    /\ destructed = <<>>

\* the process is still running (an abort ends it) and the BlobVec has not
\* been dropped
BlobRunning == blobRet.status # "abort" /\ blobRet.op # "drop"

\* unsafe { vec.push::<T>(item) }
BlobPush(T, item) ==
    /\ BlobRunning
    /\ Len(data) < MaxLen
    /\ LET r == push(item_layout, data, T, item)
       IN  /\ data' = r.data
           /\ pushed' = IF pushOnly /\ r.status = "ok"
                        THEN Append(pushed, item) ELSE pushed
           /\ blobRet' = BlobRet("push", T, 0, item, r.status, None)
    /\ UNCHANGED <<item_layout, destructed, pushOnly, allocVars, csVars, saVars, worldVars, queryVars, mixedRet, eventVars, schedVars, erVars, resVars>>

\* unsafe { vec.get::<T>(index) }
BlobGet(T, index) ==
    /\ BlobRunning
    /\ LET r == get(item_layout, data, T, index)
       IN  blobRet' = BlobRet("get", T, index, 0, r.status, r.val)
    /\ UNCHANGED <<item_layout, destructed, data, pushed, pushOnly, allocVars, csVars, saVars, worldVars, queryVars, mixedRet, eventVars, schedVars, erVars, resVars>>

\* unsafe { *vec.get_mut::<T>(index).unwrap() = item }: the caller writes
\* through the reference when there is one
BlobGetMut(T, index, item) ==
    /\ BlobRunning
    /\ LET r == get_mut(item_layout, data, T, index)
           written == r.status = "ok" /\ r.val # None
       IN  /\ data' = IF written THEN [data EXCEPT ![index + 1] = item] ELSE data
           /\ pushOnly' = (pushOnly /\ ~written)
           /\ pushed' = IF written THEN <<>> ELSE pushed
           /\ blobRet' = BlobRet("get_mut", T, index, item, r.status, r.val)
    /\ UNCHANGED <<item_layout, destructed, allocVars, csVars, saVars, worldVars, queryVars, mixedRet, eventVars, schedVars, erVars, resVars>>

\* unsafe { vec.iter::<T>() }
BlobIter(T) ==
    /\ BlobRunning
    /\ LET r == iter(item_layout, data, T)
       IN  blobRet' = BlobRet("iter", T, 0, 0, r.status, r.val)
    /\ UNCHANGED <<item_layout, destructed, data, pushed, pushOnly, allocVars, csVars, saVars, worldVars, queryVars, mixedRet, eventVars, schedVars, erVars, resVars>>

\* unsafe { vec.iter_mut::<T>() }
BlobIterMut(T) ==
    /\ BlobRunning
    /\ LET r == iter_mut(item_layout, data, T)
       IN  blobRet' = BlobRet("iter_mut", T, 0, 0, r.status, r.val)
    /\ UNCHANGED <<item_layout, destructed, data, pushed, pushOnly, allocVars, csVars, saVars, worldVars, queryVars, mixedRet, eventVars, schedVars, erVars, resVars>>

\* a destructor that runs over the elements twice
drop_fn_twice(d) ==
    [i \in 1..(2 * Len(d)) |->
        [index |-> (i - 1) % Len(d), value |-> d[((i - 1) % Len(d)) + 1]]]

\* the destructor captured by BlobVec::new::<T>(), drop_in_place::<Vec<T>>:
\* it destructs the elements 0..len of the vector in order, once each; a
\* call is recorded with the position and the element it destructs
drop_fn(d) == [i \in 1..Len(d) |-> [index |-> i - 1, value |-> d[i]]]

\* impl Drop for BlobVec: (self.drop_fn)(&mut self.data); the vector's
\* memory is released with its elements
drop(d) == [data |-> <<>>, destructed |-> drop_fn(d)]

\* unsafe { vec.swap_remove(index) }
BlobSwapRemove(index, overlap) ==
    /\ BlobRunning
    /\ LET r == swap_remove(item_layout, data, index, overlap)
       IN  /\ data' = r.data
           /\ blobRet' = BlobRet("swap_remove", "SomeComponent", index, 0,
                                 r.status, None)
    /\ pushOnly' = FALSE
    /\ pushed' = <<>>
    /\ UNCHANGED <<item_layout, destructed, allocVars, csVars, saVars, worldVars, queryVars, mixedRet, eventVars, schedVars, erVars, resVars>>

\* the BlobVec goes out of scope (also while a panic unwinds)
BlobDrop ==
    /\ BlobRunning
    /\ LET r == drop(data)
       IN  /\ data' = r.data
           /\ destructed' = r.destructed
    /\ blobRet' = BlobRet("drop", "SomeComponent", 0, 0, "ok", None)
    /\ pushOnly' = FALSE
    /\ pushed' = <<>>
    /\ UNCHANGED <<item_layout, allocVars, csVars, saVars, worldVars, queryVars, mixedRet, eventVars, schedVars, erVars, resVars>>

BlobNext ==
    \/ \E T \in Types, item \in Values : BlobPush(T, item)
    \/ \E T \in Types, index \in Indices : BlobGet(T, index)
    \/ \E T \in Types, index \in Indices, item \in Values :
          BlobGetMut(T, index, item)
    \/ \E T \in Types : BlobIter(T)
    \/ \E T \in Types : BlobIterMut(T)
    \/ \E index \in Indices, overlap \in OverlapOutcomes :
          BlobSwapRemove(index, overlap)
    \/ BlobDrop


(***************************************************************************)
(* SparseArray                                                             *)
(***************************************************************************)
\* SparseIndex::sparse_index of an Entity: the tests build the entity that
\* lands in slot n of the sparse array with Entity::new_sparse_index(n)
sparse_index(e) == e

\* SparseArray::get(index)
sparse_get(values, index) ==
    IF sparse_index(index) < Len(values)
    THEN values[sparse_index(index) + 1]
    ELSE None

\* Vec::resize_with(n, || None) on a vector shorter than n
resize_with(values, n) ==
    [j \in 1..n |-> IF j <= Len(values) THEN values[j] ELSE None]

\* SparseArray::insert(index, value)
sparse_insert(values, index, value) ==
    LET i == sparse_index(index)
        grown == IF i >= Len(values) THEN resize_with(values, i + 1) ELSE values
    IN  [grown EXCEPT ![i + 1] = Some(value)]

\* SparseArray::remove that reads the slot and leaves it filled
sparse_remove_no_take(values, index) ==
    IF sparse_index(index) < Len(values)
    THEN [values |-> values, ret |-> values[sparse_index(index) + 1]]
    ELSE [values |-> values, ret |-> None]

\* SparseArray::remove(index): the values after the call and the value taken
sparse_remove(values, index) ==
    IF sparse_index(index) < Len(values)
    THEN [values |-> [values EXCEPT ![sparse_index(index) + 1] = None],
          ret |-> values[sparse_index(index) + 1]]
    ELSE [values |-> values, ret |-> None]

Keys == 0..MaxKey

SaRet(op, key, val) == [op |-> op, key |-> key, val |-> val]

\* SparseArray::new()
SaNew ==
    /\ sa_values = <<>>
    /\ sa_map = [k \in Keys |-> None]
    /\ saRet = SaRet("new", 0, None)

\* array.get(key)
SaGet(key) ==
    /\ saRet' = SaRet("get", key, sparse_get(sa_values, key))
    /\ UNCHANGED <<sa_values, sa_map, allocVars, blobVars, csVars, worldVars, queryVars, mixedRet, eventVars, schedVars, erVars, resVars>>

\* array.insert(key, value)
SaInsert(key, value) ==
    /\ sa_values' = sparse_insert(sa_values, key, value)
    /\ sa_map' = [sa_map EXCEPT ![key] = Some(value)]
    /\ saRet' = SaRet("insert", key, None)
    /\ UNCHANGED <<allocVars, blobVars, csVars, worldVars, queryVars, mixedRet, eventVars, schedVars, erVars, resVars>>

\* array.remove(key)
SaRemove(key) ==
    /\ LET r == sparse_remove(sa_values, key)
       IN  /\ sa_values' = r.values
           /\ saRet' = SaRet("remove", key, r.ret)
    /\ sa_map' = [sa_map EXCEPT ![key] = None]
    /\ UNCHANGED <<allocVars, blobVars, csVars, worldVars, queryVars, mixedRet, eventVars, schedVars, erVars, resVars>>

SaNext ==
    \/ \E key \in Keys : SaGet(key)
    \/ \E key \in Keys, value \in Values : SaInsert(key, value)
    \/ \E key \in Keys : SaRemove(key)

(***************************************************************************)
(* ComponentSparseSet.  The set is built for SomeComponent and its callers *)
(* pass that type, as Components::insert_component does through the       *)
(* ComponentId (spec 4.4: a disagreeing type is a programming error).      *)
(***************************************************************************)
Entities == 0..MaxEntity

CsType == "SomeComponent"

ComponentSparseSet(sp, en, de) == [sparse |-> sp, entities |-> en, dense |-> de]

\* Vec::swap_remove(index) on the entity list: panics when index >= len
vec_swap_remove(v, index) ==
    IF index >= Len(v)
    THEN [vec |-> v, status |-> "panic"]
    ELSE [vec |-> [j \in 1..(Len(v) - 1) |->
                      IF j = index + 1 THEN v[Len(v)] ELSE v[j]],
          status |-> "ok"]

\* ComponentSparseSet::insert::<T>(entity, value)
cs_insert(s, entity, value) ==
    LET sp == sparse_insert(s.sparse, entity, len(s.dense))
        en == Append(s.entities, entity)
        p  == push(Layout(CsType), s.dense, CsType, value)
    IN  [set |-> ComponentSparseSet(sp, en, p.data), status |-> p.status]

\* ComponentSparseSet::get::<T>(entity)
cs_get(s, entity) ==
    LET dense_index == sparse_get(s.sparse, entity)
    IN  IF dense_index = None
        THEN [status |-> "ok", val |-> None]
        ELSE get(Layout(CsType), s.dense, CsType, dense_index[1])

\* ComponentSparseSet::entities
cs_entities_of(s) == s.entities

\* ComponentSparseSet::len
cs_len(s) == Len(s.entities)

\* ComponentSparseSet::remove_entity(entity): the set as the call leaves it
\* (a panic unwinds out of the call after the writes made so far) and how
\* the call ended.  An abort ends the process: the set is left as it was.
cs_remove_entity(s, entity, overlap) ==
    LET rm == sparse_remove(s.sparse, entity)
    IN  IF rm.ret = None
        THEN [set |-> s, status |-> "ok"]
        ELSE
          LET dense_index == rm.ret[1]
              b == swap_remove(Layout(CsType), s.dense, dense_index, overlap)
          IN  IF b.status = "abort"
              THEN [set |-> s, status |-> "abort"]
              ELSE IF b.status = "panic"
              THEN [set |-> ComponentSparseSet(rm.values, s.entities, s.dense),
                    status |-> "panic"]
              ELSE
                LET v == vec_swap_remove(s.entities, dense_index)
                IN  IF v.status = "panic"
                    THEN [set |-> ComponentSparseSet(rm.values, s.entities, b.data),
                          status |-> "panic"]
                    ELSE IF dense_index >= Len(v.vec)
                    THEN \* self.entities[dense_index] is out of bounds
                         [set |-> ComponentSparseSet(rm.values, v.vec, b.data),
                          status |-> "panic"]
                    ELSE [set |-> ComponentSparseSet(
                                      sparse_insert(rm.values,
                                                    v.vec[dense_index + 1],
                                                    dense_index),
                                      v.vec, b.data),
                          status |-> "ok"]

CsSet == ComponentSparseSet(cs_sparse, cs_entities, cs_dense)

CsRet(op, entity, status, val) ==
    [op |-> op, entity |-> entity, status |-> status, val |-> val]

\* ComponentSparseSet::new::<SomeComponent>()
CsInit ==
    /\ cs_sparse = <<>>
    /\ cs_entities = <<>>
    /\ cs_dense = <<>>
    /\ cs_inserted = [e \in Entities |-> None]
    /\ csRet = CsRet("new", 0, "ok", None)

CsRunning == csRet.status # "abort"

\* component.insert(entity, value)
CsInsert(entity, value) ==
    /\ CsRunning
    /\ Len(cs_dense) < MaxDense
    /\ Len(cs_entities) < MaxDense
    /\ LET r == cs_insert(CsSet, entity, value)
       IN  /\ cs_sparse' = r.set.sparse
           /\ cs_entities' = r.set.entities
           /\ cs_dense' = r.set.dense
           /\ csRet' = CsRet("insert", entity, r.status, None)
    /\ cs_inserted' = [cs_inserted EXCEPT ![entity] = Some(value)]
    /\ UNCHANGED <<allocVars, blobVars, saVars, worldVars, queryVars, mixedRet, eventVars, schedVars, erVars, resVars>>

\* component.get::<SomeComponent>(entity)
CsGet(entity) ==
    /\ CsRunning
    /\ LET r == cs_get(CsSet, entity)
       IN  csRet' = CsRet("get", entity, r.status, r.val)
    /\ UNCHANGED <<cs_sparse, cs_entities, cs_dense, cs_inserted, allocVars, blobVars, saVars, worldVars, queryVars, mixedRet, eventVars, schedVars, erVars, resVars>>

\* component.remove_entity(entity)
CsRemoveEntity(entity, overlap) ==
    /\ CsRunning
    /\ LET r == cs_remove_entity(CsSet, entity, overlap)
       IN  /\ cs_sparse' = r.set.sparse
           /\ cs_entities' = r.set.entities
           /\ cs_dense' = r.set.dense
           /\ csRet' = CsRet("remove_entity", entity, r.status, None)
    /\ cs_inserted' = [cs_inserted EXCEPT ![entity] = None]
    /\ UNCHANGED <<allocVars, blobVars, saVars, worldVars, queryVars, mixedRet, eventVars, schedVars, erVars, resVars>>

CsNext ==
    \/ \E e \in Entities, v \in Values : CsInsert(e, v)
    \/ \E e \in Entities : CsGet(e)
    \/ \E e \in Entities, o \in OverlapOutcomes : CsRemoveEntity(e, o)

(***************************************************************************)
(* ComponentsInfo, SparseSet, Components and the World that owns them      *)
(* (src/src/ecs/component.rs, src/src/ecs/storage/sparse_set.rs).  Every   *)
(* component type of the World is a one-word struct such as                *)
(* SomeComponent(u32), so the stores share the layout of CsType.           *)
(***************************************************************************)
WorldEntities == 0..MaxWorldEntity

\* the payloads the tests give their components: SomeComponent(10),
\* SomeOtherComponent(5)
Payloads == {5, 10}

ComponentInfo(id) == [id |-> id]

ComponentsInfo(cs, ix) == [components |-> cs, indices |-> ix]

\* ComponentsInfo::new(): no component, an empty type index
ci_new == ComponentsInfo(<<>>, [T \in Types |-> None])

\* ComponentsInfo::register_component that gives a registered type its
\* first id again
ci_register_component_idempotent(ci, T) ==
    IF ci.indices[T] # None
    THEN [info |-> ci, id |-> ci.indices[T][1]]
    ELSE [info |-> ComponentsInfo(
                      Append(ci.components, ComponentInfo(Len(ci.components))),
                      [ci.indices EXCEPT ![T] = Some(Len(ci.components))]),
          id |-> Len(ci.components)]

\* ComponentsInfo::register_component that numbers the ids from 1
ci_register_component_from_one(ci, T) ==
    [info |-> ComponentsInfo(
                 Append(ci.components, ComponentInfo(Len(ci.components) + 1)),
                 [ci.indices EXCEPT ![T] = Some(Len(ci.components) + 1)]),
     id |-> Len(ci.components) + 1]

\* ComponentsInfo::register_component::<T>(): the registry after the call and
\* the id returned
ci_register_component(ci, T) ==
    LET component_id == Len(ci.components)
    IN  [info |-> ComponentsInfo(
                     Append(ci.components, ComponentInfo(component_id)),
                     [ci.indices EXCEPT ![T] = Some(component_id)]),
         id |-> component_id]

\* ComponentsInfo::get_by_type_id(TypeId::of::<T>()), which get::<T>() calls
ci_get_by_type_id(ci, T) ==
    IF ci.indices[T] = None
    THEN None
    ELSE Some(ci.components[sparse_index(ci.indices[T][1]) + 1])

SparseSet(sp, de) == [sparse |-> sp, dense |-> de]

\* SparseSet::get(index), and get_mut(index)
set_get(s, index) ==
    LET si == sparse_get(s.sparse, index)
    IN  IF si = None THEN None ELSE Some(s.dense[si[1] + 1])

\* SparseSet::insert(index, value): overwrites the value of a present key
set_insert(s, index, value) ==
    LET dense_index == sparse_get(s.sparse, index)
    IN  IF dense_index # None
        THEN SparseSet(s.sparse,
                       [s.dense EXCEPT ![sparse_index(dense_index[1]) + 1] = value])
        ELSE SparseSet(sparse_insert(s.sparse, index, Len(s.dense)),
                       Append(s.dense, value))

\* Components::new()
components_new == SparseSet(<<>>, <<>>)

\* Components::get(component_id), and get_mut(component_id)
components_get(c, component_id) == set_get(c, component_id)

\* Components::register_component::<T>(component_id)
components_register_component(c, component_id) ==
    set_insert(c, component_id, ComponentSparseSet(<<>>, <<>>, <<>>))

\* Components::insert_component(entity, component_id, component): the
\* unwrap panics when no store is registered under the id
components_insert_component(c, entity, component_id, component) ==
    IF components_get(c, component_id) = None
    THEN [components |-> c, status |-> "panic"]
    ELSE LET r == cs_insert(components_get(c, component_id)[1], entity, component)
             si == sparse_get(c.sparse, component_id)[1]
         IN  [components |-> SparseSet(c.sparse, [c.dense EXCEPT ![si + 1] = r.set]),
              status |-> r.status]

\* Components::has_component(component_id, entity)
components_has_component(c, component_id, entity) ==
    /\ components_get(c, component_id) # None
    /\ \E k \in 1..Len(components_get(c, component_id)[1].entities) :
          components_get(c, component_id)[1].entities[k] = entity

\* Components::entities(component_id)
components_entities(c, component_id) ==
    IF components_get(c, component_id) = None
    THEN <<>>
    ELSE components_get(c, component_id)[1].entities

\* <T as TupleAddComponent>::add_component(components_info, components,
\* entity): the unwrap panics when T was never registered
add_component(ci, c, T, entity, component) ==
    LET component_info == ci_get_by_type_id(ci, T)
    IN  IF component_info = None
        THEN [components |-> c, status |-> "panic"]
        ELSE components_insert_component(c, entity, component_info[1].id, component)

\* World::register_component::<T>(): a new ComponentId from the type
\* registry and an empty store for T under it
register_component(ci, c, T) ==
    LET r == ci_register_component(ci, T)
    IN  [info |-> r.info,
         components |-> components_register_component(c, r.id),
         id |-> r.id]

\* an accessor member: Read<T> or Write<T>
Read(T) == [mode |-> "Read", type |-> T]

Write(T) == [mode |-> "Write", type |-> T]

\* Read::<T>::entities(world) and Write::<T>::entities(world): the unwrap
\* panics when T was never registered
member_entities(ci, c, m) ==
    LET component_info == ci_get_by_type_id(ci, m.type)
    IN  IF component_info = None
        THEN [status |-> "panic", val |-> <<>>]
        ELSE LET store == components_get(c, component_info[1].id)
             IN  [status |-> "ok",
                  val |-> IF store = None THEN <<>> ELSE cs_entities_of(store[1])]

\* Read::<T>::get_component(world, entity) and
\* Write::<T>::get_component(world, entity): the component, if any, and the
\* store it is borrowed from
member_get_component(ci, c, m, entity) ==
    LET component_info == ci_get_by_type_id(ci, m.type)
    IN  IF component_info = None
        THEN [status |-> "panic", val |-> None, store |-> None]
        ELSE LET store == components_get(c, component_info[1].id)
             IN  [status |-> "ok",
                  val |-> IF store = None THEN None
                          ELSE cs_get(store[1], entity).val,
                  store |-> Some(component_info[1].id)]

MixedRet(op, types, status, items) ==
    [op |-> op, types |-> types, status |-> status, items |-> items]

WorldRet(op, T, status, val) ==
    [op |-> op, type |-> T, status |-> status, val |-> val]

\* World::new()
WorldNew ==
    /\ components_info = ci_new
    /\ components = components_new
    /\ registered = <<>>
    /\ added = 0
    /\ worldRet = WorldRet("new", "SomeComponent", "ok", None)

\* world.register_component::<T>()
RegisterComponent(T) ==
    /\ Len(components_info.components) < MaxComponents
    /\ LET r == register_component(components_info, components, T)
       IN  /\ components_info' = r.info
           /\ components' = r.components
           /\ registered' = Append(registered, [type |-> T, id |-> r.id])
           /\ worldRet' = WorldRet("register_component", T, "ok", Some(r.id))
    /\ UNCHANGED <<added, allocVars, blobVars, csVars, saVars, queryVars, mixedRet, eventVars, schedVars, erVars, resVars>>

\* world.add_component(entity, T(component)), at most limit times; the
\* call needs the World, so the queries that borrowed it have been dropped
AddComponent(T, entity, component, limit) ==
    /\ added < limit
    /\ q_state # "iterating"
    /\ LET r == add_component(components_info, components, T, entity, component)
       IN  /\ components' = r.components
           /\ worldRet' = WorldRet("add_component", T, r.status, None)
    /\ added' = added + 1
    /\ q_state' = "none"
    /\ q_accessor' = <<>>
    /\ q_entities' = <<>>
    /\ q_pos' = 0
    /\ q_item' = None
    /\ q_yielded' = <<>>
    /\ q_prev' = None
    /\ mixedRet' = MixedRet("none", <<>>, "ok", <<>>)
    /\ UNCHANGED <<components_info, registered, allocVars, blobVars, csVars, saVars, eventVars, schedVars, erVars, resVars>>

\* world.components_info.get_by_type_id(TypeId::of::<T>())
GetByTypeId(T) ==
    /\ LET r == ci_get_by_type_id(components_info, T)
       IN  worldRet' = WorldRet("get_by_type_id", T, "ok",
                                IF r = None THEN None ELSE Some(r[1].id))
    /\ UNCHANGED <<components_info, components, registered, added,
                   allocVars, blobVars, csVars, saVars, queryVars, mixedRet, eventVars, schedVars, erVars, resVars>>

\* no Query has been created
QueryNone ==
    /\ q_state = "none"
    /\ q_accessor = <<>>
    /\ q_entities = <<>>
    /\ q_pos = 0
    /\ q_item = None
    /\ q_yielded = <<>>
    /\ q_prev = None

RegistryNext ==
    \/ \E T \in Types : RegisterComponent(T)
    \/ \E T \in Types, entity \in WorldEntities, component \in Payloads :
          AddComponent(T, entity, component, MaxRegAdded)
    \/ \E T \in Types : GetByTypeId(T)

(***************************************************************************)
(* Query and the accessors Read<T>, Write<T>, (A, B), (A, B, C)            *)
(* (src/src/ecs/query/mod.rs).  An accessor is the sequence of its         *)
(* members; a sequence of one member is that member itself.                *)
(***************************************************************************)
\* the accessor types the systems of the model ask for
QueryAccessors ==
    { <<Write("SomeComponent")>>,
      <<Read("SomeComponent"), Read("OtherComponent")>>,
      <<Read("SomeComponent"), Write("OtherComponent")>>,
      <<Write("SomeComponent"), Read("SomeComponent")>>,
      <<Read("SomeComponent"), Read("OtherComponent"), Read("PackedComponent")>> }

\* Vec::contains
contains(v, e) == \E k \in 1..Len(v) : v[k] = e

\* (A, B)::entities that walks B's list and keeps the entities of A
accessor_entities_second_order(ci, c, acc) ==
    IF Len(acc) = 1
    THEN member_entities(ci, c, acc[1]).val
    ELSE LET entities_a == member_entities(ci, c, acc[1]).val
             entities_b == member_entities(ci, c, acc[2]).val
             entities_c == member_entities(ci, c, acc[Len(acc)]).val
         IN  SelectSeq(entities_b,
                       LAMBDA e : contains(entities_a, e) /\ contains(entities_c, e))

\* T::entities(world) for T = Read<_> or Write<_>, (A, B) and (A, B, C)
accessor_entities(ci, c, acc) ==
    IF Len(acc) = 1
    THEN member_entities(ci, c, acc[1]).val
    ELSE IF Len(acc) = 2
    THEN LET entities_a == member_entities(ci, c, acc[1]).val
             entities_b == member_entities(ci, c, acc[2]).val
         IN  SelectSeq(entities_a, LAMBDA e : contains(entities_b, e))
    ELSE LET entities_a == member_entities(ci, c, acc[1]).val
             entities_b == member_entities(ci, c, acc[2]).val
             entities_c == member_entities(ci, c, acc[3]).val
         IN  SelectSeq(entities_a,
                       LAMBDA e : contains(entities_b, e) /\ contains(entities_c, e))

\* T::get_component(world, entity): None as soon as a member has none (the
\* ? operator); otherwise the members' components and, for each, the store
\* it is borrowed from
accessor_get_component(ci, c, acc, entity) ==
    LET r == [k \in 1..Len(acc) |-> member_get_component(ci, c, acc[k], entity)]
    IN  IF \E k \in 1..Len(acc) : r[k].val = None
        THEN None
        ELSE Some([entity |-> entity,
                   vals |-> [k \in 1..Len(acc) |-> r[k].val[1]],
                   stores |-> [k \in 1..Len(acc) |-> r[k].store[1]]])

\* one call of next() on entities.into_iter().filter_map(..): the position
\* of the first entity after pos whose get_component is Some, or past the end
RECURSIVE filter_map_next(_, _, _, _, _)
filter_map_next(ci, c, acc, entities, pos) ==
    IF pos >= Len(entities)
    THEN Len(entities) + 1
    ELSE IF accessor_get_component(ci, c, acc, entities[pos + 1]) # None
    THEN pos + 1
    ELSE filter_map_next(ci, c, acc, entities, pos + 1)

\* a write that takes the component out of the store and inserts it again
write_component_reinsert(c, component_id, entity, component) ==
    LET si == sparse_get(c.sparse, component_id)[1]
        store == c.dense[si + 1]
        k == CHOOSE k \in 1..Len(store.entities) : store.entities[k] = entity
        keep == SelectSeq([j \in 1..Len(store.entities) |-> j], LAMBDA j : j # k)
        en == [j \in 1..Len(keep) |-> store.entities[keep[j]]] \o <<entity>>
        de == [j \in 1..Len(keep) |-> store.dense[keep[j]]] \o <<component>>
        sp == [e \in 1..Len(store.sparse) |->
                 IF \E j \in 1..Len(en) : en[j] = e - 1
                 THEN Some((CHOOSE j \in 1..Len(en) :
                               /\ en[j] = e - 1
                               /\ \A i \in (j + 1)..Len(en) : en[i] # e - 1) - 1)
                 ELSE None]
    IN  SparseSet(c.sparse,
                  [c.dense EXCEPT ![si + 1] = ComponentSparseSet(sp, en, de)])

\* *item = component through the &mut T that Write::<T>::get_component
\* returned: components.get_mut(id), then ComponentSparseSet::get_mut(entity),
\* the element of dense at the entity's sparse index
write_component(c, component_id, entity, component) ==
    LET si == sparse_get(c.sparse, component_id)[1]
        store == c.dense[si + 1]
        dense_index == sparse_get(store.sparse, entity)[1]
    IN  SparseSet(c.sparse,
                  [c.dense EXCEPT ![si + 1] =
                      ComponentSparseSet(store.sparse, store.entities,
                          [store.dense EXCEPT ![dense_index + 1] = component])])

\* the World of the tests: every component type registered once
RECURSIVE registered_world(_)
registered_world(types) ==
    IF types = <<>>
    THEN [info |-> ci_new, components |-> components_new]
    ELSE LET w == registered_world(SubSeq(types, 1, Len(types) - 1))
         IN  register_component(w.info, w.components, types[Len(types)])

WorldRegistered ==
    LET types == <<"SomeComponent", "OtherComponent", "PackedComponent">>
        w == registered_world(types)
    IN  /\ components_info = w.info
        /\ components = w.components
        /\ registered = [k \in 1..Len(types) |-> [type |-> types[k], id |-> k - 1]]
        /\ added = 0
        /\ worldRet = WorldRet("register_component", types[Len(types)], "ok",
                               Some(Len(types) - 1))

\* Query::get_param(world, state), which World::query::<T>() is: the entity
\* list is computed once; an earlier Query has been dropped
QueryNew(acc) ==
    /\ q_state # "iterating"
    /\ q_state' = "iterating"
    /\ q_accessor' = acc
    /\ q_entities' = accessor_entities(components_info, components, acc)
    /\ q_pos' = 0
    /\ q_item' = None
    /\ q_yielded' = <<>>
    /\ q_prev' = IF q_state = "done" /\ q_accessor = acc
                 THEN Some(q_yielded) ELSE None
    /\ worldRet' = WorldRet("query", "SomeComponent", "ok", None)
    /\ UNCHANGED <<components_info, components, registered, added,
                   allocVars, blobVars, csVars, saVars, mixedRet, eventVars, schedVars, erVars, resVars>>

\* one call of next() on query.iter()
QueryIterNext ==
    /\ q_state = "iterating"
    /\ LET p == filter_map_next(components_info, components, q_accessor,
                                q_entities, q_pos)
       IN  IF p > Len(q_entities)
           THEN /\ q_state' = "done"
                /\ q_pos' = Len(q_entities)
                /\ q_item' = None
                /\ q_yielded' = q_yielded
           ELSE /\ q_state' = "iterating"
                /\ q_pos' = p
                /\ q_item' = accessor_get_component(components_info, components,
                                                    q_accessor, q_entities[p])
                /\ q_yielded' = Append(q_yielded, q_entities[p])
    /\ UNCHANGED <<q_accessor, q_entities, q_prev, worldVars, allocVars,
                   blobVars, csVars, saVars, mixedRet, eventVars, schedVars, erVars, resVars>>

\* the system writes through the &mut T of member k of the item it holds
QueryWrite(k, component) ==
    /\ q_state = "iterating"
    /\ q_item # None
    /\ k \in 1..Len(q_accessor)
    /\ q_accessor[k].mode = "Write"
    /\ components' = write_component(components, q_item[1].stores[k],
                                     q_item[1].entity, component)
    /\ UNCHANGED <<components_info, registered, added, worldRet, queryVars,
                   allocVars, blobVars, csVars, saVars, mixedRet, eventVars, schedVars, erVars, resVars>>

QueryNext ==
    \/ \E T \in Types, entity \in WorldEntities, component \in Payloads :
          AddComponent(T, entity, component, MaxAdded)
    \/ \E acc \in QueryAccessors : QueryNew(acc)
    \/ QueryIterNext
    \/ \E k \in 1..3, component \in Payloads : QueryWrite(k, component)

(***************************************************************************)
(* The queries of src/src/ecs/mod.rs: Query<T> for &T and MixedQuery for   *)
(* (&T1, &T2), each consumed to its first None as collect() does.          *)
(***************************************************************************)
\* ComponentSparseSet::get_dense::<T>(dense_index)
cs_get_dense(s, dense_index) == get(Layout(CsType), s.dense, CsType, dense_index).val

\* <Query<T> as Iterator>::next(), called until it returns None: the items
\* yielded from current_index on
RECURSIVE query_collect(_, _)
query_collect(s, current_index) ==
    IF cs_get_dense(s, current_index) = None
    THEN <<>>
    ELSE <<cs_get_dense(s, current_index)[1]>> \o query_collect(s, current_index + 1)

\* <(QueryWindow<T1>, QueryWindow<T2>) as ComponentStorage>::get_data(index)
get_data(storage, index) ==
    LET a == cs_get(storage[1], index).val
        b == cs_get(storage[2], index).val
    IN  IF a = None \/ b = None THEN None ELSE Some(<<a[1], b[1]>>)

\* <MixedQuery as Iterator>::next(), called until it returns None: the items
\* yielded from current_index on
RECURSIVE mixed_collect(_, _, _)
mixed_collect(storage, indices, current_index) ==
    IF current_index >= Len(indices)
    THEN <<>>
    ELSE IF get_data(storage, indices[current_index + 1]) = None
    THEN <<>>
    ELSE <<get_data(storage, indices[current_index + 1])[1]>>
             \o mixed_collect(storage, indices, current_index + 1)

\* <&T as WorldQueryable>::query(components_info, components), collected
query_one(ci, c, T) ==
    LET component_info == ci_get_by_type_id(ci, T)
    IN  IF component_info = None \/ components_get(c, component_info[1].id) = None
        THEN [status |-> "panic", items |-> <<>>]
        ELSE [status |-> "ok",
              items |-> query_collect(components_get(c, component_info[1].id)[1], 0)]

\* <(&T1, &T2) as WorldQueryable>::query(components_info, components),
\* collected: the entities of the smaller set (of the first, when they are
\* equally long) drive the iteration
query_two(ci, c, T1, T2) ==
    LET info_1 == ci_get_by_type_id(ci, T1)
        info_2 == ci_get_by_type_id(ci, T2)
    IN  IF \/ info_1 = None
           \/ info_2 = None
           \/ components_get(c, info_1[1].id) = None
           \/ components_get(c, info_2[1].id) = None
        THEN [status |-> "panic", items |-> <<>>]
        ELSE LET window_1 == components_get(c, info_1[1].id)[1]
                 component_set == components_get(c, info_2[1].id)[1]
                 smallest == IF cs_len(component_set) < cs_len(window_1)
                             THEN component_set ELSE window_1
             IN  [status |-> "ok",
                  items |-> mixed_collect(<<window_1, component_set>>,
                                          cs_entities_of(smallest), 0)]

\* no query of src/src/ecs/mod.rs has been made
MixedNone == mixedRet = MixedRet("none", <<>>, "ok", <<>>)

\* world.query::<&T>().collect()
QueryOne(T) ==
    /\ q_state # "iterating"
    /\ LET r == query_one(components_info, components, T)
       IN  mixedRet' = MixedRet("query_one", <<T>>, r.status, r.items)
    /\ UNCHANGED <<allocVars, blobVars, csVars, saVars, worldVars, queryVars, eventVars, schedVars, erVars, resVars>>

\* world.query::<(&T1, &T2)>().collect()
QueryTwo(T1, T2) ==
    /\ q_state # "iterating"
    /\ LET r == query_two(components_info, components, T1, T2)
       IN  mixedRet' = MixedRet("query_two", <<T1, T2>>, r.status, r.items)
    /\ UNCHANGED <<allocVars, blobVars, csVars, saVars, worldVars, queryVars, eventVars, schedVars, erVars, resVars>>

\* the two component types of tests::test_query
MixedTypes == {"SomeComponent", "OtherComponent"}

MixedNext ==
    \/ \E T \in MixedTypes, entity \in 0..MaxMixedEntity, component \in Payloads :
          AddComponent(T, entity, component, MaxMixedAdded)
    \/ \E T \in MixedTypes : QueryOne(T)
    \/ \E T1, T2 \in MixedTypes : QueryTwo(T1, T2)

(***************************************************************************)
(* Events<E>, EventIterator and EventReader (src/src/ecs/events.rs)        *)
(***************************************************************************)

\* the events sent are SomeEvent(v) for these v
EventValues == 0..MaxEventVal

\* Local<T>::init_state(world): the default value of the type, for the
\* usize cursor of an EventReader and for a Local<u32>
local_init_state == 0

\* struct EventSequence<E>
EventSequence(events, start_event_count) ==
    [events |-> events, start_event_count |-> start_event_count]

\* struct Events<E>
Events(a, b, count) == [events_a |-> a, events_b |-> b, event_count |-> count]

\* usize::saturating_sub
saturating_sub(a, b) == IF a > b THEN a - b ELSE 0

\* usize::min
min(a, b) == IF a < b THEN a ELSE b

\* a get(index..) that gives the whole slice for an index past the end
get_from_whole_past_end(s, index) ==
    IF index <= Len(s) THEN Some(SubSeq(s, index + 1, Len(s))) ELSE Some(s)

\* <[E]>::get(index..): the slice from index on, None when index is past
\* the end
get_from(s, index) ==
    IF index <= Len(s) THEN Some(SubSeq(s, index + 1, Len(s))) ELSE None

\* Option<&[E]>::unwrap_or_default(): the empty slice for None
unwrap_or_default(o) == IF o = None THEN <<>> ELSE o[1]

\* Events::new()
events_new == Events(EventSequence(<<>>, 0), EventSequence(<<>>, 0), 0)

\* Events::send(event)
events_send(ev, event) ==
    Events(ev.events_a,
           EventSequence(Append(ev.events_b.events, event),
                         ev.events_b.start_event_count),
           ev.event_count + 1)

\* an update() that swaps and clears but leaves the start count of the
\* cleared buffer as it was
events_update_stale_start(ev) ==
    LET swapped_a == ev.events_b
        cleared_b == EventSequence(<<>>, ev.events_a.start_event_count)
    IN  [events |-> Events(swapped_a, cleared_b, ev.event_count),
         debug_assert |-> swapped_a.start_event_count + Len(swapped_a.events)
                              = cleared_b.start_event_count]

\* Events::update(): the Events after the call and whether the condition of
\* its debug_assert_eq! holds
events_update(ev) ==
    LET swapped_a == ev.events_b
        swapped_b == ev.events_a
        cleared_b == EventSequence(<<>>, ev.event_count)
    IN  [events |-> Events(swapped_a, cleared_b, ev.event_count),
         debug_assert |-> swapped_a.start_event_count + Len(swapped_a.events)
                              = cleared_b.start_event_count]

\* Events::len()
events_len(ev) == Len(ev.events_b.events) + Len(ev.events_a.events)

\* struct EventIterator, with the cursor it borrows
EventIterator(c, chain, unread) == [cursor |-> c, chain |-> chain, unread |-> unread]

\* a new() that takes the unread events of buffer b alone
event_iterator_new_only_b(c, ev) ==
    LET b_index == saturating_sub(c, ev.events_b.start_event_count)
        b == unwrap_or_default(get_from(ev.events_b.events, b_index))
        unread_count == Len(b)
    IN  [it |-> EventIterator(ev.event_count - unread_count, b, unread_count),
         debug_assert |-> unread_count
                              = min(saturating_sub(ev.event_count, c), events_len(ev))]

\* a new() that leaves the reader's cursor where it was
event_iterator_new_keeps_cursor(c, ev) ==
    LET a_index == saturating_sub(c, ev.events_a.start_event_count)
        b_index == saturating_sub(c, ev.events_b.start_event_count)
        a == unwrap_or_default(get_from(ev.events_a.events, a_index))
        b == unwrap_or_default(get_from(ev.events_b.events, b_index))
        unread_count == Len(a) + Len(b)
    IN  [it |-> EventIterator(c, a \o b, unread_count),
         debug_assert |-> unread_count
                              = min(saturating_sub(ev.event_count, c), events_len(ev))]

\* a new() that takes both buffers whole, whatever the cursor
event_iterator_new_from_start(c, ev) ==
    LET a == ev.events_a.events
        b == ev.events_b.events
        unread_count == Len(a) + Len(b)
    IN  [it |-> EventIterator(ev.event_count - unread_count, a \o b, unread_count),
         debug_assert |-> unread_count
                              = min(saturating_sub(ev.event_count, c), events_len(ev))]

\* EventIterator::new(cursor, events): the iterator, the cursor as new left
\* it, and whether the condition of its debug_assert_eq! holds
event_iterator_new(c, ev) ==
    LET a_index == saturating_sub(c, ev.events_a.start_event_count)
        b_index == saturating_sub(c, ev.events_b.start_event_count)
        a == unwrap_or_default(get_from(ev.events_a.events, a_index))
        b == unwrap_or_default(get_from(ev.events_b.events, b_index))
        unread_count == Len(a) + Len(b)
    IN  [it |-> EventIterator(ev.event_count - unread_count, a \o b, unread_count),
         debug_assert |-> unread_count
                              = min(saturating_sub(ev.event_count, c), events_len(ev))]

\* a next() that yields the events and leaves the reader's cursor alone
it_next_keeps_cursor(it) ==
    IF it.chain # <<>>
    THEN [it |-> EventIterator(it.cursor, Tail(it.chain), it.unread - 1),
          ret |-> Some(Head(it.chain))]
    ELSE [it |-> it, ret |-> None]

\* EventIterator::next(): the iterator after the call and what it returned
it_next(it) ==
    IF it.chain # <<>>
    THEN [it |-> EventIterator(it.cursor + 1, Tail(it.chain), it.unread - 1),
          ret |-> Some(Head(it.chain))]
    ELSE [it |-> it, ret |-> None]

\* EventIterator::count(): consumes the iterator, returns the number unread
it_count(it) ==
    [it |-> EventIterator(it.cursor + it.unread, it.chain, it.unread),
     ret |-> it.unread]

\* EventIterator::last(): consumes the iterator, returns its last event
it_last(it) ==
    IF it.chain = <<>>
    THEN [it |-> it, ret |-> None]
    ELSE [it |-> EventIterator(it.cursor + it.unread, <<>>, it.unread),
          ret |-> Some(it.chain[Len(it.chain)])]

\* an nth(n) that counts the n events it skips and not the one it returns
it_nth_skipped_only(it, n) ==
    IF n < Len(it.chain)
    THEN [it |-> EventIterator(it.cursor + n,
                               SubSeq(it.chain, n + 2, Len(it.chain)),
                               it.unread - n),
          ret |-> Some(it.chain[n + 1])]
    ELSE [it |-> EventIterator(it.cursor + it.unread, <<>>, 0), ret |-> None]

\* EventIterator::nth(n)
it_nth(it, n) ==
    IF n < Len(it.chain)
    THEN [it |-> EventIterator(it.cursor + n + 1,
                               SubSeq(it.chain, n + 2, Len(it.chain)),
                               it.unread - (n + 1)),
          ret |-> Some(it.chain[n + 1])]
    ELSE [it |-> EventIterator(it.cursor + it.unread, <<>>, 0), ret |-> None]

\* the Events of the World, read from the variables that hold its fields
TheEvents == Events(events_a, events_b, event_count)

\* the live EventIterator, read from the variables that hold its fields
TheIterator == EventIterator(cursor, it_chain, it_unread)

\* a call on the Events or on the iterator: the event sent or the argument
\* of nth, the value returned and whether the debug assertion of the call held
EvRet(op, arg, ret, ok) ==
    [op |-> op, arg |-> arg, ret |-> ret, debug_assert |-> ok]

\* what the calls so far did: the number of updates; whether the events
\* sent and yielded are being recorded; an update came after a send; the
\* reader has not read yet; the reader drained a read() to its end since the
\* latest update; an update came with no drain since the update before it;
\* the latest read() was drained and no event was sent since
EvHist(updates, recording, updated_after_send, fresh, drained, missed, clean) ==
    [updates |-> updates, recording |-> recording,
     updated_after_send |-> updated_after_send,
     fresh |-> fresh, drained |-> drained, missed |-> missed, clean |-> clean]

\* the latest read(): the reader was fresh; no event was sent since the
\* read() before it was drained; the cursor was behind the start of buffer a;
\* the events it has yielded; next() has returned None
ItRead(fresh, quiet, behind, got, ended) ==
    [fresh |-> fresh, quiet |-> quiet, behind |-> behind, got |-> got,
     ended |-> ended]

\* the record of a reader that has no iterator
NoRead == ItRead(FALSE, FALSE, FALSE, <<>>, FALSE)

\* world.add_event::<E>() inserts Events::new(); the system's EventReader
\* state starts with the cursor 0 and no read() was made
EventsNew ==
    /\ events_a = events_new.events_a
    /\ events_b = events_new.events_b
    /\ event_count = events_new.event_count
    /\ cursor = local_init_state
    /\ it_open = FALSE
    /\ it_chain = <<>>
    /\ it_unread = 0
    /\ ev_sent = <<>>
    /\ ev_yielded = <<>>
    /\ ev_hist = EvHist(0, TRUE, FALSE, TRUE, FALSE, FALSE, FALSE)
    /\ it_read = NoRead
    /\ evRet = EvRet("new", 0, None, TRUE)

\* the same Events and reader, with no record kept of what is sent and
\* yielded
EventsNewUnrecorded ==
    /\ events_a = events_new.events_a
    /\ events_b = events_new.events_b
    /\ event_count = events_new.event_count
    /\ cursor = local_init_state
    /\ it_open = FALSE
    /\ it_chain = <<>>
    /\ it_unread = 0
    /\ ev_sent = <<>>
    /\ ev_yielded = <<>>
    /\ ev_hist = EvHist(0, FALSE, FALSE, FALSE, FALSE, FALSE, FALSE)
    /\ it_read = NoRead
    /\ evRet = EvRet("new", 0, None, TRUE)

EventFrame ==
    UNCHANGED <<allocVars, blobVars, csVars, saVars, worldVars, queryVars,
                mixedRet, schedVars, erVars, resVars>>

\* events.send(event); the Events is borrowed by a live iterator's reader,
\* so the call comes when no iterator is alive
EvSend(event) ==
    /\ ~it_open
    /\ event_count < MaxEvents
    /\ LET r == events_send(TheEvents, event)
       IN  /\ events_a' = r.events_a
           /\ events_b' = r.events_b
           /\ event_count' = r.event_count
    /\ IF ev_hist.recording
       THEN /\ ev_sent' = Append(ev_sent, event)
            /\ ev_hist' = [ev_hist EXCEPT !.clean = FALSE]
       ELSE UNCHANGED <<ev_sent, ev_hist>>
    /\ evRet' = EvRet("send", event, None, TRUE)
    /\ UNCHANGED <<cursor, it_open, it_chain, it_unread, ev_yielded, it_read>>
    /\ EventFrame

\* events.update()
EvUpdate ==
    /\ ~it_open
    /\ ev_hist.updates < MaxUpdates
    /\ LET r == events_update(TheEvents)
       IN  /\ events_a' = r.events.events_a
           /\ events_b' = r.events.events_b
           /\ event_count' = r.events.event_count
           /\ evRet' = EvRet("update", 0, None, r.debug_assert)
    /\ IF ev_hist.recording
       THEN ev_hist' = [ev_hist EXCEPT
                           !.updates = @ + 1,
                           !.updated_after_send = @ \/ ev_sent # <<>>,
                           !.drained = FALSE,
                           !.missed = @ \/ (ev_hist.updates >= 1 /\ ~ev_hist.drained)]
       ELSE ev_hist' = [ev_hist EXCEPT !.updates = @ + 1]
    /\ UNCHANGED <<cursor, it_open, it_chain, it_unread, ev_sent, ev_yielded, it_read>>
    /\ EventFrame

\* reader.read(): EventIterator::new(&mut self.cursor, &self.events)
EvRead ==
    /\ ~it_open
    /\ LET r == event_iterator_new(cursor, TheEvents)
       IN  /\ cursor' = r.it.cursor
           /\ it_chain' = r.it.chain
           /\ it_unread' = r.it.unread
           /\ evRet' = EvRet("read", 0, None, r.debug_assert)
    /\ it_open' = TRUE
    /\ IF ev_hist.recording
       THEN /\ it_read' = ItRead(ev_hist.fresh, ev_hist.clean,
                                 cursor < events_a.start_event_count, <<>>, FALSE)
            /\ ev_hist' = [ev_hist EXCEPT !.fresh = FALSE]
       ELSE UNCHANGED <<it_read, ev_hist>>
    /\ UNCHANGED <<events_a, events_b, event_count, ev_sent, ev_yielded>>
    /\ EventFrame

\* EventIterator::new(&mut c, &events) called with a cursor of any value: new
\* is public and takes the cursor from its caller
EvNew(c) ==
    /\ ~it_open
    /\ LET r == event_iterator_new(c, TheEvents)
       IN  /\ cursor' = r.it.cursor
           /\ it_chain' = r.it.chain
           /\ it_unread' = r.it.unread
           /\ evRet' = EvRet("iterator_new", c, None, r.debug_assert)
    /\ it_open' = TRUE
    /\ ev_hist' = [ev_hist EXCEPT !.recording = FALSE]
    /\ UNCHANGED <<events_a, events_b, event_count, ev_sent, ev_yielded, it_read>>
    /\ EventFrame

\* iterator.next()
EvNext ==
    /\ it_open
    /\ LET r == it_next(TheIterator)
       IN  /\ cursor' = r.it.cursor
           /\ it_chain' = r.it.chain
           /\ it_unread' = r.it.unread
           /\ evRet' = EvRet("next", 0, r.ret, TRUE)
           /\ IF ev_hist.recording
              THEN /\ ev_yielded' = ev_yielded \o r.ret
                   /\ it_read' = [it_read EXCEPT !.got = @ \o r.ret,
                                                 !.ended = @ \/ r.ret = None]
                   /\ ev_hist' = [ev_hist EXCEPT !.drained = @ \/ r.ret = None,
                                                 !.clean = @ \/ r.ret = None]
              ELSE UNCHANGED <<ev_yielded, it_read, ev_hist>>
    /\ UNCHANGED <<events_a, events_b, event_count, it_open, ev_sent>>
    /\ EventFrame

\* iterator.count(), which consumes the iterator; what was yielded is
\* recorded for a reader that iterates with next() only
EvCount ==
    /\ it_open
    /\ LET r == it_count(TheIterator)
       IN  /\ cursor' = r.it.cursor
           /\ evRet' = EvRet("count", 0, Some(r.ret), TRUE)
    /\ it_open' = FALSE
    /\ it_chain' = <<>>
    /\ it_unread' = 0
    /\ ev_hist' = [ev_hist EXCEPT !.recording = FALSE]
    /\ UNCHANGED <<events_a, events_b, event_count, ev_sent, ev_yielded, it_read>>
    /\ EventFrame

\* iterator.last(), which consumes the iterator
EvLast ==
    /\ it_open
    /\ LET r == it_last(TheIterator)
       IN  /\ cursor' = r.it.cursor
           /\ evRet' = EvRet("last", 0, r.ret, TRUE)
    /\ it_open' = FALSE
    /\ it_chain' = <<>>
    /\ it_unread' = 0
    /\ ev_hist' = [ev_hist EXCEPT !.recording = FALSE]
    /\ UNCHANGED <<events_a, events_b, event_count, ev_sent, ev_yielded, it_read>>
    /\ EventFrame

\* iterator.nth(n)
EvNth(n) ==
    /\ it_open
    /\ LET r == it_nth(TheIterator, n)
       IN  /\ cursor' = r.it.cursor
           /\ it_chain' = r.it.chain
           /\ it_unread' = r.it.unread
           /\ evRet' = EvRet("nth", n, r.ret, TRUE)
    /\ ev_hist' = [ev_hist EXCEPT !.recording = FALSE]
    /\ UNCHANGED <<events_a, events_b, event_count, it_open, ev_sent, ev_yielded,
                   it_read>>
    /\ EventFrame

\* the iterator is dropped, at its end or before it
EvDrop ==
    /\ it_open
    /\ it_open' = FALSE
    /\ it_chain' = <<>>
    /\ it_unread' = 0
    /\ it_read' = NoRead
    /\ evRet' = EvRet("drop", 0, None, TRUE)
    /\ UNCHANGED <<events_a, events_b, event_count, cursor, ev_sent, ev_yielded,
                   ev_hist>>
    /\ EventFrame

\* a reader that iterates with next()
EventNext ==
    \/ \E event \in EventValues : EvSend(event)
    \/ EvUpdate
    \/ EvRead
    \/ EvNext
    \/ EvDrop

\* iterators made by new() from a cursor of any value
EventNewNext ==
    \/ \E event \in EventValues : EvSend(event)
    \/ EvUpdate
    \/ \E c \in 0..(MaxEvents + 1) : EvNew(c)
    \/ EvNext
    \/ EvDrop

\* a reader that also takes the bulk paths of the iterator
EventBulkNext ==
    \/ \E event \in EventValues : EvSend(event)
    \/ EvUpdate
    \/ EvRead
    \/ EvNext
    \/ EvCount
    \/ EvLast
    \/ \E n \in 0..MaxEvents : EvNth(n)
    \/ EvDrop

(***************************************************************************)
(* Scheduler, System and FunctionSystem (src/src/ecs/scheduler.rs)         *)
(***************************************************************************)

\* the system functions given to add_system: read_query iterates its
\* Query<Read<SomeComponent>> to the end, increment_local adds one to its
\* Local<u32>, panic panics
SystemFns == {"read_query", "increment_local", "panic"}

\* struct FunctionSystemState
FunctionSystemState(param) == [param |-> param]

\* IntoSystem::into_system: FunctionSystem { f, state: None, .. }
into_system(f) == [f |-> f, state |-> None]

\* <F::Param as SystemParam>::init_state(world): () for Query and for the
\* empty parameter list, written 0
init_state(f) == IF f = "increment_local" THEN local_init_state ELSE 0

\* FunctionSystem::initialize
system_initialize(system) ==
    [system EXCEPT !.state = Some(FunctionSystemState(init_state(system.f)))]

\* Query<Read<T>>::get_param(world, state).iter(), iterated to its end: the
\* entities of Read::<T>::entities(world) for which Read::<T>::get_component
\* is Some (filter_map), each yielded as the item (entity, &component)
query_iter_collect(ci, c, T) ==
    LET entities == member_entities(ci, c, Read(T)).val
        component(e) == member_get_component(ci, c, Read(T), e).val
        kept == SelectSeq(entities, LAMBDA e : component(e) # None)
    IN  [k \in 1..Len(kept) |-> [entity |-> kept[k], value |-> component(kept[k])[1]]]

\* self.f.run(param): the function called with its parameter; how it ended,
\* the parameter state it left and the items its query yielded
system_fn_run(f, param, ci, c) ==
    IF f = "panic"
    THEN [status |-> "panic", param |-> param, items |-> <<>>]
    ELSE IF f = "increment_local"
    THEN [status |-> "ok", param |-> param + 1, items |-> <<>>]
    ELSE [status |-> "ok", param |-> param,
          items |-> query_iter_collect(ci, c, "SomeComponent")]

\* an entry of the log of a run: the index of the system, what happened
\* ("not_initialized": the expect on its state panicked; "run": the function
\* was called with the parameter state; "return": it returned, leaving the
\* state; "panic": it panicked), the parameter state and the items yielded
LogEntry(system, event, param, items) ==
    [system |-> system, event |-> event, param |-> param, items |-> items]

\* FunctionSystem::run for the system of the given index
system_run(system, index, ci, c) ==
    IF system.state = None
    THEN [system |-> system, status |-> "panic",
          log |-> <<LogEntry(index, "not_initialized", 0, <<>>)>>]
    ELSE LET param == system.state[1].param
             r == system_fn_run(system.f, param, ci, c)
         IN  [system |-> [system EXCEPT !.state = Some(FunctionSystemState(r.param))],
              status |-> r.status,
              log |-> <<LogEntry(index, "run", param, <<>>),
                        LogEntry(index,
                                 IF r.status = "ok" THEN "return" ELSE "panic",
                                 r.param, r.items)>>]

\* a run that calls the systems from the last one to the first
RECURSIVE scheduler_run_backwards(_, _, _, _)
scheduler_run_backwards(s, i, ci, c) ==
    IF i >= Len(s)
    THEN [systems |-> s, log |-> <<>>, status |-> "ok"]
    ELSE LET k == Len(s) - i
             r == system_run(s[k], k - 1, ci, c)
             ran == [s EXCEPT ![k] = r.system]
         IN  IF r.status = "panic"
             THEN [systems |-> ran, log |-> r.log, status |-> "panic"]
             ELSE LET rest == scheduler_run_backwards(ran, i + 1, ci, c)
                  IN  [systems |-> rest.systems, log |-> r.log \o rest.log,
                       status |-> rest.status]

\* a run that goes on with the next system after a system panicked
RECURSIVE scheduler_run_isolating(_, _, _, _)
scheduler_run_isolating(s, i, ci, c) ==
    IF i >= Len(s)
    THEN [systems |-> s, log |-> <<>>, status |-> "ok"]
    ELSE LET r == system_run(s[i + 1], i, ci, c)
             rest == scheduler_run_isolating([s EXCEPT ![i + 1] = r.system],
                                             i + 1, ci, c)
         IN  [systems |-> rest.systems, log |-> r.log \o rest.log,
              status |-> IF r.status = "panic" THEN "panic" ELSE rest.status]

\* Scheduler::run from the system of index i on: for system in &mut
\* self.systems { system.run(world) }, a panic ending the loop
RECURSIVE scheduler_run(_, _, _, _)
scheduler_run(s, i, ci, c) ==
    IF i >= Len(s)
    THEN [systems |-> s, log |-> <<>>, status |-> "ok"]
    ELSE LET r == system_run(s[i + 1], i, ci, c)
             ran == [s EXCEPT ![i + 1] = r.system]
         IN  IF r.status = "panic"
             THEN [systems |-> ran, log |-> r.log, status |-> "panic"]
             ELSE LET rest == scheduler_run(ran, i + 1, ci, c)
                  IN  [systems |-> rest.systems, log |-> r.log \o rest.log,
                       status |-> rest.status]

\* Scheduler::initialize: system.initialize(world) for every system
scheduler_initialize(s) == [i \in 1..Len(s) |-> system_initialize(s[i])]

\* Scheduler::add_system
scheduler_add_system(s, f) == Append(s, into_system(f))

\* a call on the Scheduler and how it ended
SchedRet(op, status) == [op |-> op, status |-> status]

\* the component stores after world.add_entity(SomeComponent(i)) for i in
\* 0..n, the entity of index i holding SomeComponent(i)
RECURSIVE populated_components(_, _)
populated_components(w, n) ==
    IF n = 0
    THEN w.components
    ELSE add_component(w.info, populated_components(w, n - 1),
                       "SomeComponent", n - 1, n - 1).components

\* the World the systems run on: its component types are registered and n
\* entities hold a SomeComponent
WorldPopulated(n) ==
    LET types == <<"SomeComponent", "OtherComponent", "PackedComponent">>
        w == registered_world(types)
    IN  /\ components_info = w.info
        /\ components = populated_components(w, n)
        /\ registered = [k \in 1..Len(types) |-> [type |-> types[k], id |-> k - 1]]
        /\ added = n
        /\ worldRet = IF n = 0
                      THEN WorldRet("register_component", types[Len(types)], "ok",
                                    Some(Len(types) - 1))
                      ELSE WorldRet("add_component", "SomeComponent", "ok", None)

\* Scheduler::new()
SchedulerNew ==
    /\ systems = <<>>
    /\ sched_log = <<>>
    /\ sched_inits = <<>>
    /\ sched_left = <<>>
    /\ sched_calls = 0
    /\ schedRet = SchedRet("new", "ok")

SchedFrame ==
    UNCHANGED <<allocVars, blobVars, csVars, saVars, worldVars, queryVars,
                mixedRet, eventVars, erVars, resVars>>

\* scheduler.add_system(f)
SchedAddSystem(f) ==
    /\ Len(systems) < MaxSystems
    /\ systems' = scheduler_add_system(systems, f)
    /\ sched_inits' = Append(sched_inits, 0)
    /\ sched_left' = Append(sched_left, None)
    /\ schedRet' = SchedRet("add_system", "ok")
    /\ UNCHANGED <<sched_log, sched_calls>>
    /\ SchedFrame

\* scheduler.initialize(&mut world)
SchedInitialize ==
    /\ sched_calls < MaxSchedCalls
    /\ systems' = scheduler_initialize(systems)
    /\ sched_inits' = [i \in 1..Len(sched_inits) |-> sched_inits[i] + 1]
    /\ sched_calls' = sched_calls + 1
    /\ schedRet' = SchedRet("initialize", "ok")
    /\ UNCHANGED <<sched_log, sched_left>>
    /\ SchedFrame

\* scheduler.run(&mut world)
SchedRun ==
    /\ sched_calls < MaxSchedCalls
    /\ LET r == scheduler_run(systems, 0, components_info, components)
       IN  /\ systems' = r.systems
           /\ sched_log' = r.log
           /\ sched_left' =
                 [i \in 1..Len(sched_left) |->
                     IF \E k \in 1..Len(r.log) :
                            r.log[k].system = i - 1 /\ r.log[k].event = "return"
                     THEN Some(r.systems[i].state[1].param)
                     ELSE sched_left[i]]
           /\ schedRet' = SchedRet("run", r.status)
    /\ sched_calls' = sched_calls + 1
    /\ UNCHANGED sched_inits
    /\ SchedFrame

SchedNext ==
    \/ \E f \in SystemFns : SchedAddSystem(f)
    \/ SchedInitialize
    \/ SchedRun

(***************************************************************************)
(* EventRegistry (src/src/ecs/events.rs) over the Events resources of the  *)
(* World                                                                   *)
(***************************************************************************)

\* the event types registered: the World stores an Events<SomeEvent> at
\* times and never an Events<OtherEvent>
EventTypes == {"SomeEvent", "OtherEvent"}

\* EventRegistry::register_event::<E>(): one more update function
register_event(fns, E) == Append(fns, E)

\* the update function pushed for E, called on the World: Events::update()
\* when world.write_resource::<Events<E>>() is Ok, nothing otherwise
event_update(E, present, ev) ==
    IF E = "SomeEvent" /\ present THEN events_update(ev).events ELSE ev

\* EventRegistry::update_events(world): every update function in turn; the
\* Events<SomeEvent> after the call and the number of Events::update calls
\* made for each type
update_events(fns, present, ev) ==
    LET RECURSIVE after(_)
        after(k) == IF k = 0 THEN ev
                    ELSE event_update(fns[k], present, after(k - 1))
        calls(E) == Cardinality({k \in 1..Len(fns) :
                                    fns[k] = E /\ E = "SomeEvent" /\ present})
    IN  [events |-> after(Len(fns)),
         rotations |-> [E \in EventTypes |-> calls(E)]]

\* EventRegistry::new(); no Events resource is stored yet
EventRegistryNew ==
    /\ update_functions = <<>>
    /\ events_inserted = FALSE
    /\ er_rotations = [E \in EventTypes |-> 0]

ErFrame ==
    UNCHANGED <<allocVars, blobVars, csVars, saVars, worldVars, queryVars,
                mixedRet, schedVars, resVars>>

\* registry.register_event::<E>()
ErRegisterEvent(E) ==
    /\ Len(update_functions) < MaxRegistered
    /\ update_functions' = register_event(update_functions, E)
    /\ evRet' = EvRet("register_event", 0, None, TRUE)
    /\ UNCHANGED <<events_inserted, er_rotations, events_a, events_b, event_count,
                   cursor, it_open, it_chain, it_unread, ev_sent, ev_yielded,
                   ev_hist, it_read>>
    /\ ErFrame

\* world.insert_resource(Events::<SomeEvent>::new())
ErInsertEvents ==
    /\ ~it_open
    /\ events_inserted' = TRUE
    /\ events_a' = events_new.events_a
    /\ events_b' = events_new.events_b
    /\ event_count' = events_new.event_count
    /\ evRet' = EvRet("insert_resource", 0, None, TRUE)
    /\ UNCHANGED <<update_functions, er_rotations, cursor, it_open, it_chain,
                   it_unread, ev_sent, ev_yielded, ev_hist, it_read>>
    /\ ErFrame

\* world.remove_resource::<Events<SomeEvent>>()
ErRemoveEvents ==
    /\ ~it_open
    /\ events_inserted
    /\ events_inserted' = FALSE
    /\ events_a' = events_new.events_a
    /\ events_b' = events_new.events_b
    /\ event_count' = events_new.event_count
    /\ evRet' = EvRet("remove_resource", 0, None, TRUE)
    /\ UNCHANGED <<update_functions, er_rotations, cursor, it_open, it_chain,
                   it_unread, ev_sent, ev_yielded, ev_hist, it_read>>
    /\ ErFrame

\* EventWriter::send(event) of a system, on the stored Events<SomeEvent>
ErSend(event) ==
    /\ events_inserted
    /\ EvSend(event)

\* registry.update_events(&mut world)
ErUpdateEvents ==
    /\ ~it_open
    /\ LET r == update_events(update_functions, events_inserted, TheEvents)
       IN  /\ events_a' = r.events.events_a
           /\ events_b' = r.events.events_b
           /\ event_count' = r.events.event_count
           /\ er_rotations' = r.rotations
    /\ evRet' = EvRet("update_events", 0, None, TRUE)
    /\ UNCHANGED <<update_functions, events_inserted, cursor, it_open, it_chain,
                   it_unread, ev_sent, ev_yielded, ev_hist, it_read>>
    /\ ErFrame

EventRegistryNext ==
    \/ \E E \in EventTypes : ErRegisterEvent(E)
    \/ ErInsertEvents
    \/ ErRemoveEvents
    \/ \E event \in EventValues : ErSend(event)
    \/ ErUpdateEvents

(***************************************************************************)
(* The resources of the World (src/src/ecs/world.rs, src/src/anymap.rs)    *)
(***************************************************************************)

\* the resource types: tests::FPS and the Events<u32> of main.rs
ResourceTypes == {"FPS", "Events"}

\* the values of a resource: FPS(v)
ResValues == 0..MaxResVal

\* what the build does when the thread that holds a lock of an RwLock asks
\* for a conflicting lock of it: std leaves it open whether read() and
\* write() panic or block forever
RelockOutcomes == {"panic", "deadlock"}

\* RwLock<T>: the value, the read guards and the write guard alive, and
\* whether a write guard was dropped during a panic
RwLock(value, readers, writer, poisoned) ==
    [value |-> value, readers |-> readers, writer |-> writer, poisoned |-> poisoned]

\* RwLock::new(value)
rwlock_new(value) == RwLock(value, 0, FALSE, FALSE)

\* AnyMap::get::<T>()
anymap_get(map, T) == map[T]

\* AnyMap::insert::<T>(value)
anymap_insert(map, T, value) == [map EXCEPT ![T] = Some(value)]

\* an AnyMap::remove that returns the value and leaves it in the map
anymap_remove_keeps(map, T) == [map |-> map, ret |-> map[T]]

\* AnyMap::remove::<T>(): the map after the call and the value returned
anymap_remove(map, T) == [map |-> [map EXCEPT ![T] = None], ret |-> map[T]]

\* a panic unwinds the scope that holds the guards: every guard is dropped,
\* and a write guard dropped while panicking poisons its lock
unwind(map) ==
    [T \in ResourceTypes |->
        IF map[T] = None THEN None
        ELSE Some(RwLock(map[T][1].value, 0, FALSE,
                         map[T][1].poisoned \/ map[T][1].writer))]

\* an insert_resource that keeps the resource already stored
insert_resource_keeps_first(map, T, resource) ==
    IF map[T] # None THEN map
    ELSE [map EXCEPT ![T] = Some([value |-> resource, readers |-> 0,
                                  writer |-> FALSE, poisoned |-> FALSE])]

\* World::insert_resource(resource)
insert_resource(map, T, resource) == anymap_insert(map, T, rwlock_new(resource))

\* World::remove_resource::<T>(): into_inner().unwrap() panics on a poisoned
\* lock, after the lock has left the map
remove_resource(map, T) ==
    LET r == anymap_remove(map, T)
    IN  IF r.ret = None
        THEN [map |-> r.map, status |-> "ok", val |-> None]
        ELSE IF r.ret[1].poisoned
        THEN [map |-> r.map, status |-> "panic", val |-> None]
        ELSE [map |-> r.map, status |-> "ok", val |-> Some(r.ret[1].value)]

\* a read_resource on a World with one lock for all its resources
read_resource_one_lock(map, T, relock) ==
    IF map[T] = None
    THEN [map |-> map, status |-> "err", val |-> None]
    ELSE IF \E U \in ResourceTypes : map[U] # None /\ map[U][1].writer
    THEN [map |-> IF relock = "panic"
                  THEN [U \in ResourceTypes |->
                           IF map[U] = None THEN None
                           ELSE Some([value |-> map[U][1].value, readers |-> 0,
                                      writer |-> FALSE,
                                      poisoned |-> map[U][1].poisoned
                                                     \/ map[U][1].writer])]
                  ELSE map,
          status |-> relock, val |-> None]
    ELSE [map |-> [map EXCEPT ![T] = Some([map[T][1] EXCEPT !.readers = @ + 1])],
          status |-> "ok", val |-> Some(map[T][1].value)]

\* World::read_resource::<T>(): Err when no RwLock<T> is stored; else
\* resource.read().unwrap(), which gives a read guard, panics on a poisoned
\* lock and panics or blocks when the thread holds the write guard
read_resource(map, T, relock) ==
    LET resource == anymap_get(map, T)
    IN  IF resource = None
        THEN [map |-> map, status |-> "err", val |-> None]
        ELSE IF resource[1].writer
        THEN [map |-> IF relock = "panic" THEN unwind(map) ELSE map,
              status |-> relock, val |-> None]
        ELSE IF resource[1].poisoned
        THEN [map |-> unwind(map), status |-> "panic", val |-> None]
        ELSE [map |-> [map EXCEPT ![T] =
                          Some([resource[1] EXCEPT !.readers = @ + 1])],
              status |-> "ok", val |-> Some(resource[1].value)]

\* World::write_resource::<T>(): Err when no RwLock<T> is stored; else
\* resource.write().unwrap(), which gives the write guard, panics on a
\* poisoned lock and panics or blocks when the thread holds a guard of it
write_resource(map, T, relock) ==
    LET resource == anymap_get(map, T)
    IN  IF resource = None
        THEN [map |-> map, status |-> "err", val |-> None]
        ELSE IF resource[1].writer \/ resource[1].readers > 0
        THEN [map |-> IF relock = "panic" THEN unwind(map) ELSE map,
              status |-> relock, val |-> None]
        ELSE IF resource[1].poisoned
        THEN [map |-> unwind(map), status |-> "panic", val |-> None]
        ELSE [map |-> [map EXCEPT ![T] = Some([resource[1] EXCEPT !.writer = TRUE])],
              status |-> "ok", val |-> Some(resource[1].value)]

\* *guard = value, through the DerefMut of the write guard
guard_set(map, T, value) == [map EXCEPT ![T] = Some([map[T][1] EXCEPT !.value = value])]

\* no guard of any resource is alive: the World can be borrowed mutably
NoGuard(map) ==
    \A T \in ResourceTypes :
        map[T] # None => (map[T][1].readers = 0 /\ ~map[T][1].writer)

\* a call on the resources: the type, how it ended ("ok", "err", "panic",
\* "deadlock") and the value it returned or observed
ResRet(op, T, status, val) == [op |-> op, type |-> T, status |-> status, val |-> val]

\* per type, the value last inserted or written, whether it was written
\* through a write guard, and whether remove_resource has returned the
\* stored value since
ResLast(value, written, removed) ==
    [value |-> value, written |-> written, removed |-> removed]

\* the value stored for T, None when no resource of type T is stored
ResValue(map, T) == IF map[T] = None THEN None ELSE Some(map[T][1].value)

\* World::new(): AnyMap::new(), no resource stored
ResourcesNew ==
    /\ resources = [T \in ResourceTypes |-> None]
    /\ res_last = [T \in ResourceTypes |-> ResLast(None, FALSE, FALSE)]
    /\ resRet = ResRet("new", "FPS", "ok", None)
    /\ rs_log = <<>>

\* the thread is not blocked in a lock call
ResRunning == resRet.status # "deadlock"

ResFrame ==
    UNCHANGED <<allocVars, blobVars, csVars, saVars, worldVars, queryVars,
                mixedRet, eventVars, schedVars, erVars, rs_log>>

\* world.insert_resource(FPS(value)); &mut self: no guard is alive
ResInsert(T, value) ==
    /\ ResRunning
    /\ NoGuard(resources)
    /\ resources' = insert_resource(resources, T, value)
    /\ res_last' = [res_last EXCEPT ![T] = ResLast(Some(value), FALSE, FALSE)]
    /\ resRet' = ResRet("insert_resource", T, "ok", None)
    /\ ResFrame

\* world.remove_resource::<T>(); &mut self: no guard is alive
ResRemove(T) ==
    /\ ResRunning
    /\ NoGuard(resources)
    /\ LET r == remove_resource(resources, T)
       IN  /\ resources' = r.map
           /\ resRet' = ResRet("remove_resource", T, r.status, r.val)
           /\ res_last' = [res_last EXCEPT
                              ![T] = ResLast(None, FALSE, @.removed \/ r.val # None)]
    /\ ResFrame

\* let guard = world.read_resource::<T>()
ResRead(T, relock) ==
    /\ ResRunning
    /\ resources[T] # None => resources[T][1].readers < MaxReaders
    /\ LET r == read_resource(resources, T, relock)
       IN  /\ resources' = r.map
           /\ resRet' = ResRet("read_resource", T, r.status, r.val)
    /\ UNCHANGED res_last
    /\ ResFrame

\* let mut guard = world.write_resource::<T>()
ResWrite(T, relock) ==
    /\ ResRunning
    /\ LET r == write_resource(resources, T, relock)
       IN  /\ resources' = r.map
           /\ resRet' = ResRet("write_resource", T, r.status, r.val)
    /\ UNCHANGED res_last
    /\ ResFrame

\* guard.0 = value, through the write guard of T
ResGuardSet(T, value) ==
    /\ ResRunning
    /\ resources[T] # None
    /\ resources[T][1].writer
    /\ resources' = guard_set(resources, T, value)
    /\ res_last' = [res_last EXCEPT ![T] = ResLast(Some(value), TRUE, FALSE)]
    /\ resRet' = ResRet("guard_set", T, "ok", None)
    /\ ResFrame

\* a read guard of T goes out of scope
ResDropRead(T) ==
    /\ ResRunning
    /\ resources[T] # None
    /\ resources[T][1].readers > 0
    /\ resources' = [resources EXCEPT ![T] = Some([@[1] EXCEPT !.readers = @ - 1])]
    /\ resRet' = ResRet("drop_read_guard", T, "ok", None)
    /\ UNCHANGED res_last
    /\ ResFrame

\* the write guard of T goes out of scope
ResDropWrite(T) ==
    /\ ResRunning
    /\ resources[T] # None
    /\ resources[T][1].writer
    /\ resources' = [resources EXCEPT ![T] = Some([@[1] EXCEPT !.writer = FALSE])]
    /\ resRet' = ResRet("drop_write_guard", T, "ok", None)
    /\ UNCHANGED res_last
    /\ ResFrame

\* the code that holds the guards panics
ResPanic ==
    /\ ResRunning
    /\ ~NoGuard(resources)
    /\ resources' = unwind(resources)
    /\ resRet' = ResRet("panic", "FPS", "panic", None)
    /\ UNCHANGED res_last
    /\ ResFrame

ResourcesNext ==
    \/ \E T \in ResourceTypes, value \in ResValues : ResInsert(T, value)
    \/ \E T \in ResourceTypes : ResRemove(T)
    \/ \E T \in ResourceTypes, relock \in RelockOutcomes : ResRead(T, relock)
    \/ \E T \in ResourceTypes, relock \in RelockOutcomes : ResWrite(T, relock)
    \/ \E T \in ResourceTypes, value \in ResValues : ResGuardSet(T, value)
    \/ \E T \in ResourceTypes : ResDropRead(T)
    \/ \E T \in ResourceTypes : ResDropWrite(T)
    \/ ResPanic

(***************************************************************************)
(* Res, ResMut, EventReader and EventWriter as system parameters           *)
(* (src/src/ecs/scheduler.rs, src/src/ecs/events.rs, src/src/main.rs)      *)
(***************************************************************************)

\* the parameters of a system, as the leaves of its parameter tuple
Res(T) == [kind |-> "Res", type |-> T]

ResMut(T) == [kind |-> "ResMut", type |-> T]

LocalParam == [kind |-> "Local", type |-> "usize"]

QueryParam(m) == [kind |-> "Query" \o m.mode, type |-> m.type]

\* EventReader<E>: (Local<usize>, Res<Events<E>>)
EventReader == [kind |-> "Tuple", first |-> LocalParam, second |-> Res("Events")]

\* EventWriter<E>: ResMut<Events<E>>
EventWriter == ResMut("Events")

\* the system functions with resource parameters, named by their parameters
ResSystemFns ==
    {"write_fps_read_events", "read_events_write_fps", "read_fps_write_fps",
     "write_fps_write_fps", "read_write_events", "write_query_write_fps",
     "read_query_read_fps"}

\* F::Param of a system function: a pair of parameters
system_params(f) ==
    CASE f = "write_fps_read_events" -> <<ResMut("FPS"), Res("Events")>>
      [] f = "read_events_write_fps" -> <<Res("Events"), ResMut("FPS")>>
      [] f = "read_fps_write_fps" -> <<Res("FPS"), ResMut("FPS")>>
      [] f = "write_fps_write_fps" -> <<ResMut("FPS"), ResMut("FPS")>>
      [] f = "read_write_events" -> <<EventReader, EventWriter>>
      [] f = "write_query_write_fps" ->
            <<QueryParam(Write("SomeComponent")), ResMut("FPS")>>
      [] f = "read_query_read_fps" ->
            <<QueryParam(Read("SomeComponent")), Res("FPS")>>

\* the parameters that are no tuples, from left to right
SystemLeaves(params) ==
    (IF params[1].kind = "Tuple" THEN <<params[1].first, params[1].second>>
     ELSE <<params[1]>>)
    \o (IF params[2].kind = "Tuple" THEN <<params[2].first, params[2].second>>
        ELSE <<params[2]>>)

\* the parameters of a system that borrow a resource, in the order in which
\* get_param resolves them
system_borrows(f) ==
    SelectSeq(SystemLeaves(system_params(f)), LAMBDA p : p.kind \in {"Res", "ResMut"})

\* the systems that ask twice for one resource type, once at least for writing
ConflictingFns == {"read_fps_write_fps", "write_fps_write_fps", "read_write_events"}

\* Res::<T>::get_param: world.read_resource::<T>().expect("Resource not found")
res_get_param(map, T, relock) ==
    LET r == read_resource(map, T, relock)
    IN  IF r.status = "err"
        THEN [map |-> unwind(map), status |-> "panic", val |-> None]
        ELSE r

\* ResMut::<T>::get_param: world.write_resource::<T>().expect("Resource not found")
res_mut_get_param(map, T, relock) ==
    LET r == write_resource(map, T, relock)
    IN  IF r.status = "err"
        THEN [map |-> unwind(map), status |-> "panic", val |-> None]
        ELSE r

\* get_param of one parameter that is no tuple: Local and Query take no lock
param_get_param(param, map, relock) ==
    IF param.kind = "Res" THEN res_get_param(map, param.type, relock)
    ELSE IF param.kind = "ResMut" THEN res_mut_get_param(map, param.type, relock)
    ELSE [map |-> map, status |-> "ok", val |-> None]

\* <(T1, T2) as SystemParam>::get_param: T1::get_param, then T2::get_param,
\* on the same World, a tuple among them resolved the same way: the
\* parameters that are no tuples are resolved from left to right, and a
\* panic or a blocked lock call ends the resolution
system_get_param(params, map, relock) ==
    LET leaves == SystemLeaves(params)
        seen(k, r) == IF leaves[k].kind \in {"Res", "ResMut"} THEN <<r.val>> ELSE <<>>
        resolved(r1, r2, r3) ==
            IF r1.status # "ok"
            THEN [map |-> r1.map, status |-> r1.status, seen |-> <<>>]
            ELSE IF r2.status # "ok"
            THEN [map |-> r2.map, status |-> r2.status, seen |-> seen(1, r1)]
            ELSE IF Len(leaves) < 3
            THEN [map |-> r2.map, status |-> "ok",
                  seen |-> seen(1, r1) \o seen(2, r2)]
            ELSE IF r3.status # "ok"
            THEN [map |-> r3.map, status |-> r3.status,
                  seen |-> seen(1, r1) \o seen(2, r2)]
            ELSE [map |-> r3.map, status |-> "ok",
                  seen |-> seen(1, r1) \o seen(2, r2) \o seen(3, r3)]
        third(r1, r2) ==
            resolved(r1, r2,
                     IF Len(leaves) < 3 THEN r2
                     ELSE param_get_param(leaves[3], r2.map, relock))
        second(r1) == third(r1, param_get_param(leaves[2], r1.map, relock))
    IN  second(param_get_param(leaves[1], map, relock))

\* the function of a system writes the next value through each of its
\* write guards: *fps += 1, on a narrow counter
fn_write_resources(borrows, map) ==
    [T \in ResourceTypes |->
        IF \E k \in 1..Len(borrows) : borrows[k] = ResMut(T)
        THEN guard_set(map, T, (map[T][1].value + 1) % (MaxResVal + 1))[T]
        ELSE map[T]]

\* the function of a system writes the next value to each component its
\* Query<Write<T>> yields: one write_component per entity yielded
fn_write_components(ci, c, T) ==
    LET component_info == ci_get_by_type_id(ci, T)
        si == sparse_get(c.sparse, component_info[1].id)
        store == c.dense[si[1] + 1]
        yields(d) == Cardinality({k \in 1..Len(store.entities) :
                         sparse_get(store.sparse, store.entities[k]) = Some(d - 1)})
    IN  IF component_info = None \/ si = None
        THEN c
        ELSE SparseSet(c.sparse,
                 [c.dense EXCEPT ![si[1] + 1] =
                     ComponentSparseSet(store.sparse, store.entities,
                         [d \in 1..Len(store.dense) |->
                             (store.dense[d] + yields(d)) % (MaxVal + 1)])])

\* param_state goes out of scope at the end of FunctionSystem::run: every
\* guard of the system is dropped
drop_param_state(borrows, map) ==
    [T \in ResourceTypes |->
        IF map[T] = None THEN None
        ELSE Some([map[T][1] EXCEPT
                     !.readers = @ - Cardinality({k \in 1..Len(borrows) :
                                                    borrows[k] = Res(T)}),
                     !.writer = @ /\ ~\E k \in 1..Len(borrows) :
                                         borrows[k] = ResMut(T)])]

\* an entry of the log of a run: the system, how it ended, the resources and
\* the components when it started, the resources once its parameters were
\* resolved, the values its guards gave, and what it left
RsEntry(f, status, start, items_start, held, seen, end, items_end) ==
    [f |-> f, status |-> status, start |-> start, items_start |-> items_start,
     held |-> held, seen |-> seen, end |-> end, items_end |-> items_end]

\* a FunctionSystem::run that leaves the guards of the system alive
res_system_run_keeps_guards(f, map, ci, c, relock) ==
    LET writes == \E k \in 1..2 : system_params(f)[k].kind = "QueryWrite"
        returned(g, items, written, cw) ==
            [map |-> written, c |-> cw,
             entry |-> RsEntry(f, "ok", map, items, g.map, g.seen, written,
                               query_iter_collect(ci, cw, "SomeComponent"))]
        called(g, items) ==
            IF g.status # "ok"
            THEN [map |-> g.map, c |-> c,
                  entry |-> RsEntry(f, g.status, map, items, g.map, g.seen,
                                    g.map, items)]
            ELSE returned(g, items, fn_write_resources(system_borrows(f), g.map),
                          IF writes THEN fn_write_components(ci, c, "SomeComponent")
                          ELSE c)
    IN  called(system_get_param(system_params(f), map, relock),
               query_iter_collect(ci, c, "SomeComponent"))

\* FunctionSystem::run of an initialized system: get_param, self.f.run, and
\* the parameters dropped
res_system_run(f, map, ci, c, relock) ==
    LET writes == \E k \in 1..2 : system_params(f)[k].kind = "QueryWrite"
        returned(g, items, dropped, cw) ==
            [map |-> dropped, c |-> cw,
             entry |-> RsEntry(f, "ok", map, items, g.map, g.seen, dropped,
                               query_iter_collect(ci, cw, "SomeComponent"))]
        called(g, items) ==
            IF g.status # "ok"
            THEN [map |-> g.map, c |-> c,
                  entry |-> RsEntry(f, g.status, map, items, g.map, g.seen,
                                    g.map, items)]
            ELSE returned(g, items,
                          drop_param_state(system_borrows(f),
                              fn_write_resources(system_borrows(f), g.map)),
                          IF writes THEN fn_write_components(ci, c, "SomeComponent")
                          ELSE c)
    IN  called(system_get_param(system_params(f), map, relock),
               query_iter_collect(ci, c, "SomeComponent"))

\* Scheduler::run over the systems first and second: a panic unwinds out of
\* the loop, and a lock call that blocks never returns
res_scheduler_run(first, second, map, ci, c, relock) ==
    LET both(r1, r2) ==
            [map |-> r2.map, c |-> r2.c, status |-> r2.entry.status,
             log |-> <<r1.entry, r2.entry>>]
        after(r1) ==
            IF r1.entry.status # "ok"
            THEN [map |-> r1.map, c |-> r1.c, status |-> r1.entry.status,
                  log |-> <<r1.entry>>]
            ELSE both(r1, res_system_run(second, r1.map, ci, r1.c, relock))
    IN  after(res_system_run(first, map, ci, c, relock))

\* the World of the systems with resource parameters: every resource type is
\* either absent or inserted with some value
ResourcesInserted ==
    /\ resources \in [ResourceTypes ->
                         {None} \cup {Some(rwlock_new(v)) : v \in ResValues}]
    /\ res_last = [T \in ResourceTypes |->
                      ResLast(ResValue(resources, T), FALSE, FALSE)]
    /\ resRet = ResRet("insert_resource", "FPS", "ok", None)
    /\ rs_log = <<>>

\* the systems first and second are added to a new Scheduler, which is
\* initialized and run on the World
RsRun(first, second, relock) ==
    /\ ResRunning
    /\ NoGuard(resources)
    /\ rs_log = <<>>
    /\ \E r \in {res_scheduler_run(first, second, resources,
                                    components_info, components, relock)} :
           /\ resources' = r.map
           /\ components' = r.c
           /\ rs_log' = r.log
           /\ resRet' = ResRet("run", "FPS", r.status, None)
           /\ res_last' =
                 [T \in ResourceTypes |->
                     IF ResValue(r.map, T) = ResValue(resources, T)
                     THEN res_last[T]
                     ELSE ResLast(ResValue(r.map, T), TRUE, FALSE)]
    /\ UNCHANGED <<allocVars, blobVars, csVars, saVars, components_info,
                   registered, added, worldRet, queryVars, mixedRet, eventVars,
                   schedVars, erVars>>

\* the Scheduler is dropped after a run that returned or panicked
RsDrop ==
    /\ ResRunning
    /\ rs_log # <<>>
    /\ rs_log' = <<>>
    /\ resRet' = ResRet("drop", "FPS", "ok", None)
    /\ UNCHANGED <<resources, res_last>>
    /\ UNCHANGED <<allocVars, blobVars, csVars, saVars, worldVars, queryVars,
                   mixedRet, eventVars, schedVars, erVars>>

ResSchedNext ==
    \/ \E first \in ResSystemFns, second \in ResSystemFns,
          relock \in RelockOutcomes : RsRun(first, second, relock)
    \/ RsDrop

(***************************************************************************)
(* Specifications                                                          *)
(***************************************************************************)

\* the state after construction of the three objects; the BlobVec is built
\* for the element type T
Constructed(T) ==
    /\ AllocInit /\ BlobNew(T) /\ CsInit /\ SaNew /\ WorldNew /\ QueryNone /\ MixedNone
    /\ EventsNew /\ SchedulerNew /\ EventRegistryNew /\ ResourcesNew

InitFixed == Constructed("SomeComponent")

\* the World of a system: its component types are registered
InitQuery ==
    /\ AllocInit
    /\ BlobNew("SomeComponent")
    /\ CsInit
    /\ SaNew
    /\ WorldRegistered
    /\ QueryNone
    /\ MixedNone
    /\ EventsNew
    /\ SchedulerNew
    /\ EventRegistryNew
    /\ ResourcesNew

\* a Scheduler just built, with the World its systems will run on
InitResSched ==
    \E n \in 0..MaxSchedEntities :
        /\ AllocInit
        /\ BlobNew("SomeComponent")
        /\ CsInit
        /\ SaNew
        /\ WorldPopulated(n)
        /\ QueryNone
        /\ MixedNone
        /\ EventsNew
        /\ SchedulerNew
        /\ EventRegistryNew
        /\ ResourcesInserted

InitSched ==
    \E n \in 0..MaxSchedEntities :
        /\ AllocInit
        /\ BlobNew("SomeComponent")
        /\ CsInit
        /\ SaNew
        /\ WorldPopulated(n)
        /\ QueryNone
        /\ MixedNone
        /\ EventsNew
        /\ SchedulerNew
        /\ EventRegistryNew
        /\ ResourcesNew

Init == \E T \in Types : Constructed(T)

\* each component is checked on its own, the others staying as constructed
SpecAlloc == InitFixed /\ [][AllocNext]_vars

SpecBlob == Init /\ [][BlobNext]_vars

SpecSet == InitFixed /\ [][CsNext]_vars

SpecSparse == InitFixed /\ [][SaNext]_vars

SpecRegistry == InitFixed /\ [][RegistryNext]_vars

SpecQuery == InitQuery /\ [][QueryNext]_vars

SpecMixed == InitQuery /\ [][MixedNext]_vars

SpecEvents == InitFixed /\ [][EventNext]_vars

\* the Events and a reader of which no record is kept
InitEventsBulk ==
    /\ AllocInit /\ BlobNew("SomeComponent") /\ CsInit /\ SaNew /\ WorldNew
    /\ QueryNone /\ MixedNone /\ EventsNewUnrecorded /\ SchedulerNew
    /\ EventRegistryNew /\ ResourcesNew

SpecEventsBulk == InitEventsBulk /\ [][EventBulkNext]_vars

SpecEventsNew == InitEventsBulk /\ [][EventNewNext]_vars

SpecEventRegistry == InitEventsBulk /\ [][EventRegistryNext]_vars

SpecResources == InitFixed /\ [][ResourcesNext]_vars

SpecResSched == InitResSched /\ [][ResSchedNext]_vars

SpecSched == InitSched /\ [][SchedNext]_vars

Next ==
    \/ AllocNext \/ BlobNext \/ CsNext \/ SaNext \/ RegistryNext \/ QueryNext \/ MixedNext
    \/ EventBulkNext \/ EventNewNext \/ SchedNext \/ EventRegistryNext
    \/ ResourcesNext \/ ResSchedNext

Spec == Init /\ [][Next]_vars

(***************************************************************************)
(* Claims about GenerationalIndexAllocator (checked under SpecAlloc)       *)
(***************************************************************************)

\* C1: once deallocate(h) has returned true for a handle h that allocate
\* issued, is_live(h) is false in every later state, also after slot h.index
\* has been reused by later allocate calls.
C1_DeallocatedHandleStaysDead ==
    \A h \in retired : ~is_live(entries, h)

\* a deallocated handle whose slot is live again under a reissued handle
C1_Witness ==
    \E h \in retired :
        /\ entries[h.index + 1].is_live
        /\ GenerationalIndex(h.index, entries[h.index + 1].generation) \in issued

\* C2: every handle allocate returns is live immediately after the call and
\* differs, in index or generation, from every handle allocate returned
\* earlier on this allocator.
C2_AllocateReturnsFreshLiveHandle ==
    [][(Allocate /\ allocRet'.status = "ok") =>
          /\ is_live(entries', allocRet'.handle)
          /\ allocRet'.handle \notin issued]_vars

\* allocate has just reissued a slot that an earlier handle occupied
C2_Witness ==
    /\ allocRet.op = "allocate"
    /\ allocRet.status = "ok"
    /\ allocRet.handle.generation > 0
    /\ GenerationalIndex(allocRet.handle.index, 0) \in retired

\* C3: deallocate(h) with a stale handle h (issued earlier, generation
\* different from the slot's current generation) returns false and leaves
\* the entries and the free list unchanged, also when the slot is live under
\* a newer handle.
C3_StaleDeallocateIsNoOp ==
    [][\A h \in issued :
          (/\ Deallocate(h)
           /\ entries[h.index + 1].generation # h.generation)
          => (/\ allocRet'.ret = FALSE
              /\ entries' = entries
              /\ free' = free)]_vars

\* C4: deallocate returns true only when it changes the allocator; on a dead
\* slot or on an index that was never allocated it returns false and leaves
\* every entry and the free list unchanged.
C4_DeallocateTrueOnlyWhenEffectful ==
    [][\A h \in Handles :
          Deallocate(h) =>
            /\ (h.index >= Len(entries) \/ ~entries[h.index + 1].is_live)
                  => (/\ allocRet'.ret = FALSE
                      /\ allocRet'.status = "ok"
                      /\ entries' = entries
                      /\ free' = free)
            /\ allocRet'.ret => (entries' # entries /\ free' # free)]_vars

\* a second deallocate of a handle that was already deallocated returned false
C4_Witness ==
    /\ allocRet.op = "deallocate"
    /\ allocRet.arg \in retired
    /\ ~entries[allocRet.arg.index + 1].is_live
    /\ allocRet.ret = FALSE
    /\ allocRet.status = "ok"

\* C5: the generation of a slot never decreases and never wraps: deallocate
\* on a live slot whose generation is at the maximum panics and stores no
\* new generation and no free-list entry.
C5_GenerationNeverDecreasesNorWraps ==
    [][/\ \A i \in 1..Len(entries) :
            entries'[i].generation >= entries[i].generation
       /\ \A h \in Handles :
            (/\ Deallocate(h)
             /\ h.index < Len(entries)
             /\ entries[h.index + 1].is_live
             /\ entries[h.index + 1].generation = GenMax)
            => (/\ allocRet'.status = "panic"
                /\ allocRet'.ret = FALSE
                /\ entries'[h.index + 1].generation = GenMax
                /\ free' = free)]_vars

\* deallocate has panicked on a slot whose generation is at the maximum
C5_Witness ==
    /\ allocRet.op = "deallocate"
    /\ allocRet.status = "panic"
    /\ entries[allocRet.arg.index + 1].generation = GenMax

(***************************************************************************)
(* Claims about BlobVec (checked under SpecBlob)                           *)
(***************************************************************************)

\* C8: after pushing v0..v(N-1) in order with no removal, len() is N,
\* get(i) returns vi for every i < N and None for every i >= N.
C8_PushThenGetRoundTrip ==
    pushOnly =>
        /\ len(data) = Len(pushed)
        /\ \A T \in Types : \A i \in 0..(MaxLen + 1) :
              Layout(T) = item_layout =>
                  get(item_layout, data, T, i) =
                      [status |-> "ok",
                       val |-> IF i < Len(pushed)
                               THEN Some(pushed[i + 1]) ELSE None]

\* several values, not all equal, have been pushed and nothing was removed
C8_Witness ==
    /\ pushOnly
    /\ blobRet.op = "push"
    /\ blobRet.status = "ok"
    /\ Len(pushed) >= 2
    /\ pushed[1] # pushed[Len(pushed)]

\* C9: swap_remove(i) with i < n on a buffer of n >= 1 elements yields the
\* n - 1 elements of the original with position i holding the former last
\* element (nothing else changed); the empty buffer for n = 1; the remaining
\* elements unchanged for i = n - 1.
C9_SwapRemoveResult ==
    [][\A i \in Indices : \A o \in OverlapOutcomes :
          (BlobSwapRemove(i, o) /\ i < Len(data)) =>
              /\ blobRet'.status = "ok"
              /\ data' = [j \in 1..(Len(data) - 1) |->
                            IF j = i + 1 THEN data[Len(data)] ELSE data[j]]]_vars

\* C10: every typed operation (push, get, get_mut, iter, iter_mut) called
\* with a type whose layout differs from the layout captured at construction
\* panics, yields nothing and leaves the stored elements unchanged.  (blobRet'
\* names the call a step makes: its operation and its type argument.)
C10_LayoutMismatchPanics ==
    [][(/\ blobRet'.op \in {"push", "get", "get_mut", "iter", "iter_mut"}
        /\ Layout(blobRet'.type) # item_layout)
       => (/\ blobRet'.status = "panic"
           /\ blobRet'.val = None
           /\ data' = data
           /\ item_layout' = item_layout)]_vars

\* a typed call with a type of another layout has panicked on a buffer that
\* holds elements
C10_Witness ==
    /\ blobRet.op \in {"push", "get", "get_mut", "iter", "iter_mut"}
    /\ Layout(blobRet.type) # item_layout
    /\ blobRet.status = "panic"
    /\ Len(data) >= 1

\* C11: when a BlobVec is dropped after any sequence of calls, the captured
\* destructor is called exactly once for every position below len(), with
\* the element stored there, and for nothing else: no element is destructed
\* twice.
C11_DropDestructsEachLiveElementOnce ==
    [][blobRet'.op = "drop" =>
          /\ \A i \in 0..(Len(data) - 1) :
                Cardinality({k \in 1..Len(destructed') :
                                destructed'[k].index = i}) = 1
          /\ \A k \in 1..Len(destructed') :
                /\ destructed'[k].index \in 0..(Len(data) - 1)
                /\ destructed'[k].value = data[destructed'[k].index + 1]]_vars

\* a BlobVec holding at least two elements, not all equal, was dropped
C11_Witness ==
    /\ blobRet.op = "drop"
    /\ Len(destructed) >= 2
    /\ destructed[1].value # destructed[2].value

(***************************************************************************)
(* Claims about SparseArray (checked under SpecSparse)                     *)
(***************************************************************************)

\* C12: SparseArray behaves as a finite map from key to value: get(k) is the
\* value of the latest insert(k, v) not followed by remove(k) and None
\* otherwise, also for keys beyond the backing length; remove(k) returns what
\* get(k) returned just before; insert and remove on k leave get of every
\* other key unchanged.
C12_SparseArrayIsFiniteMap ==
    [][/\ \A k \in 0..(MaxKey + 2) :
              /\ sparse_get(sa_values, k) = IF k \in Keys THEN sa_map[k] ELSE None
              /\ sparse_get(sa_values', k) = IF k \in Keys THEN sa_map'[k] ELSE None
       /\ saRet'.op = "get" => saRet'.val = sa_map[saRet'.key]
       /\ saRet'.op = "remove" =>
              saRet'.val = sparse_get(sa_values, saRet'.key)
       /\ saRet'.op \in {"insert", "remove"} =>
              \A k \in 0..(MaxKey + 2) :
                  k # saRet'.key =>
                      sparse_get(sa_values', k) = sparse_get(sa_values, k)]_vars

\* a remove has returned a value while a key above it, and a slot below the
\* backing length that was never filled, were left as they were
C12_Witness ==
    /\ saRet.op = "remove"
    /\ saRet.val # None
    /\ \E k \in Keys : k > saRet.key /\ sa_map[k] # None
    /\ \E k \in Keys : k < saRet.key /\ sa_map[k] = None

(***************************************************************************)
(* Claims about ComponentSparseSet (checked under SpecSet)                 *)
(***************************************************************************)

\* C6: on a set that holds components for a set of entities, remove_entity(e)
\* for any holder e (first, middle, last or only element of the dense order)
\* completes without panicking; afterwards entities() is the previous entity
\* set minus e, get(e) is None and get returns the inserted value of every
\* remaining entity.
C6_RemoveEntityKeepsOthers ==
    [][\A e \in Entities : \A o \in OverlapOutcomes :
          (/\ CsRemoveEntity(e, o)
           /\ Cardinality({cs_entities[d] : d \in 1..Len(cs_entities)})
                 = Len(cs_entities)
           /\ \E d \in 1..Len(cs_entities) : cs_entities[d] = e)
          => (/\ csRet'.status = "ok"
              /\ {cs_entities_of(CsSet')[d] : d \in 1..cs_len(CsSet')}
                    = {cs_entities_of(CsSet)[d] : d \in 1..cs_len(CsSet)} \ {e}
              /\ cs_get(CsSet', e) = [status |-> "ok", val |-> None]
              /\ \A d \in 1..Len(cs_entities') :
                    cs_get(CsSet', cs_entities'[d])
                       = [status |-> "ok",
                          val |-> cs_inserted[cs_entities'[d]]])]_vars

\* C7: after any sequence of insert and remove_entity calls (inserting twice
\* for one entity included) the entity list and the dense data have the same
\* length, sparse[entities[d]] = d for every dense position d, every present
\* sparse slot points to a dense position holding its key, and len() is the
\* number of entities that hold the component.
C7_SparseDenseConsistent ==
    /\ Len(cs_entities) = len(cs_dense)
    /\ \A d \in 0..(Len(cs_entities) - 1) :
          sparse_get(cs_sparse, cs_entities[d + 1]) = Some(d)
    /\ \A k \in Entities :
          sparse_get(cs_sparse, k) # None =>
              /\ sparse_get(cs_sparse, k)[1] < Len(cs_entities)
              /\ cs_entities[sparse_get(cs_sparse, k)[1] + 1] = k
    /\ cs_len(CsSet) = Cardinality({cs_entities[d] : d \in 1..Len(cs_entities)})

(***************************************************************************)
(* Claims about ComponentsInfo and the World's registry (checked under     *)
(* SpecRegistry)                                                           *)
(***************************************************************************)

\* C13: register_component returns the ids 0, 1, 2, ... in the order of the
\* registration calls; an id once assigned is never changed or reused, and
\* for a type registered exactly once the type lookup returns the id
\* assigned at its registration; distinct types have distinct ids.
C13_ComponentIdsIncreaseAndStay ==
    /\ Len(components_info.components) = Len(registered)
    /\ \A k \in 1..Len(registered) :
          /\ registered[k].id = k - 1
          /\ components_info.components[k] = ComponentInfo(registered[k].id)
          /\ \A j \in 1..Len(registered) :
                j # k => registered[j].id # registered[k].id
          /\ Cardinality({j \in 1..Len(registered) :
                             registered[j].type = registered[k].type}) = 1
             => ci_get_by_type_id(components_info, registered[k].type)
                    = Some(ComponentInfo(registered[k].id))
    /\ worldRet.op = "register_component"
       => worldRet.val = Some(Len(registered) - 1)
    /\ \A T \in Types :
          (\A k \in 1..Len(registered) : registered[k].type # T)
          => ci_get_by_type_id(components_info, T) = None

\* three types were registered once each and the first one was looked up
\* after the others
C13_Witness ==
    /\ Len(registered) = 3
    /\ \A j, k \in 1..3 : j # k => registered[j].type # registered[k].type
    /\ worldRet.op = "get_by_type_id"
    /\ worldRet.type = registered[1].type
    /\ worldRet.val = Some(0)

\* C14: registering a type T again creates a ComponentId distinct from its
\* earlier ones; afterwards the type lookup of T resolves to the new id only,
\* the store under the earlier id stays as it was, and type-based access
\* (Read<T>) no longer reaches the components stored under it.
C14_SecondRegistrationOrphansFirst ==
    [][(/\ worldRet'.op = "register_component"
        /\ \E k \in 1..Len(registered) : registered[k].type = worldRet'.type)
       => LET T == worldRet'.type
              first == ci_get_by_type_id(components_info, T)[1].id
              second == worldRet'.val[1]
          IN  /\ \A k \in 1..Len(registered) : registered[k].id # second
              /\ ci_get_by_type_id(components_info', T)
                     = Some(ComponentInfo(second))
              /\ components_get(components', first)
                     = components_get(components, first)
              /\ components_get(components', first) # None
              /\ member_entities(components_info', components', Read(T)).val
                     = <<>>
              /\ \A e \in WorldEntities :
                    member_get_component(components_info', components',
                                         Read(T), e).val = None]_vars

\* a type was registered a second time while an entity held a component in
\* the store of its first id
C14_Witness ==
    /\ worldRet.op = "register_component"
    /\ \E k \in 1..(Len(registered) - 1) :
          /\ registered[k].type = worldRet.type
          /\ components_entities(components, registered[k].id) # <<>>

(***************************************************************************)
(* Claims about Query and the accessors (checked under SpecQuery)          *)
(***************************************************************************)

C16_TwoReadQueryYieldsEachHolderOnce ==
    (/\ Len(q_accessor) = 2
     /\ q_accessor[1].mode = "Read"
     /\ q_accessor[2].mode = "Read"
     /\ q_accessor[1].type # q_accessor[2].type)
    => LET id(k) == ci_get_by_type_id(components_info, q_accessor[k].type)[1].id
           holds(k, e) == components_has_component(components, id(k), e)
       IN  /\ q_item # None =>
                 \A k \in 1..2 :
                     /\ holds(k, q_item[1].entity)
                     /\ Some(q_item[1].vals[k])
                            = cs_get(components_get(components, id(k))[1],
                                     q_item[1].entity).val
           /\ q_state = "done" =>
                 /\ q_pos = Len(q_entities)
                 /\ \A e \in WorldEntities :
                       Cardinality({i \in 1..Len(q_yielded) : q_yielded[i] = e})
                           = IF holds(1, e) /\ holds(2, e) THEN 1 ELSE 0

\* C17: collecting the two-component query (&T1, &T2) yields exactly the
\* (T1, T2) value pairs of the entities that hold both components, one pair
\* for each, whatever components the entities hold; collecting the
\* single-component query &T yields every stored T once, in the order of
\* insertion.  (Stated for the Worlds in which no entity was given a
\* component of one type twice.)
C17_MixedQueryYieldsEveryHolderOfBoth ==
    (\A s \in 1..Len(components.dense) :
        \A i, j \in 1..cs_len(components.dense[s]) :
            i # j => components.dense[s].entities[i] # components.dense[s].entities[j])
    =>
    /\ (mixedRet.op = "query_one" /\ mixedRet.status = "ok")
       => LET id == ci_get_by_type_id(components_info, mixedRet.types[1])[1].id
              store == components_get(components, id)[1]
          IN  /\ Len(mixedRet.items) = cs_len(store)
              /\ \A i \in 1..cs_len(store) :
                    Some(mixedRet.items[i]) = cs_get_dense(store, i - 1)
    /\ (mixedRet.op = "query_two" /\ mixedRet.status = "ok")
       => LET id(k) == ci_get_by_type_id(components_info, mixedRet.types[k])[1].id
              store(k) == components_get(components, id(k))[1]
              both == {e \in 0..MaxMixedEntity :
                          /\ components_has_component(components, id(1), e)
                          /\ components_has_component(components, id(2), e)}
              pair(e) == <<cs_get(store(1), e).val[1], cs_get(store(2), e).val[1]>>
          IN  /\ Len(mixedRet.items) = Cardinality(both)
              /\ \A e \in both :
                    \E i \in 1..Len(mixedRet.items) : mixedRet.items[i] = pair(e)
              /\ \A i \in 1..Len(mixedRet.items) :
                    \E e \in both : mixedRet.items[i] = pair(e)

\* C18: two queries of the same accessor type created from the same World
\* with no change of component membership in between (the first one iterated
\* to its end, writing through its Write members or not) yield the same
\* entities in the same order.
C18_RequeryYieldsSameEntities ==
    (q_state = "done" /\ q_prev # None) => q_yielded = q_prev[1]

\* the second of two such queries over an accessor with a Write member has
\* ended after yielding several entities
C18_Witness ==
    /\ q_state = "done"
    /\ q_prev # None
    /\ Len(q_yielded) >= 2
    /\ q_yielded[1] # q_yielded[2]
    /\ \E k \in 1..Len(q_accessor) : q_accessor[k].mode = "Write"

\* C19: the set and order of the entities a Query visits is fixed when the
\* Query is created: while it iterates its entity list stays as it is, the
\* writes made through its Write members never add, remove or reorder the
\* entities its accessor qualifies, it visits the entities in the order of
\* the list, and it visits each entity at most once.
C19_QueryEntitiesFixedAtCreation ==
    [][q_state = "iterating" =>
          /\ q_entities' = q_entities
          /\ accessor_entities(components_info', components', q_accessor)
                 = accessor_entities(components_info, components, q_accessor)
          /\ q_yielded' = SubSeq(q_entities, 1, Len(q_yielded'))
          /\ \A i, j \in 1..Len(q_yielded') :
                i # j => q_yielded'[i] # q_yielded'[j]]_vars

\* C20: the members of one tuple accessor, which reach the World through
\* aliased pointers, touch disjoint component stores: no item holds a
\* Write<T> borrow of a store together with another borrow (Read<T> or
\* Write<T>) of the same store.
C20_AliasedAccessorsTouchDisjointStores ==
    q_item # None =>
        \A i, j \in 1..Len(q_accessor) :
            (i # j /\ q_accessor[i].mode = "Write")
            => q_item[1].stores[i] # q_item[1].stores[j]

(***************************************************************************)
(* Claims about the Scheduler (checked under SpecSched)                    *)
(***************************************************************************)

C22_InitStateCalledExactlyOnce ==
    \A i \in 1..Len(systems) :
        /\ sched_inits[i] <= 1
        /\ (\E k \in 1..Len(sched_log) : sched_log[k].system = i - 1)
           => sched_inits[i] = 1

\* C23: the parameter state a run passes to a system is the state the
\* system's latest run before it left behind; nothing between the two runs,
\* no other system's run included, changes it.
C23_ParamStatePersistsAcrossRuns ==
    [][(sched_calls' = sched_calls + 1 /\ schedRet'.op = "run")
       => \A k \in 1..Len(sched_log') :
             (/\ sched_log'[k].event = "run"
              /\ sched_left[sched_log'[k].system + 1] # None)
             => sched_log'[k].param = sched_left[sched_log'[k].system + 1][1]]_vars

\* C24: a system added with add_system is executed by a following run, its
\* Query<Read<T>> parameter yielding every entity that holds T in the order
\* of insertion, whether initialize was called in between or not.  (Stated
\* for the Schedulers none of whose systems panics by itself.)
C24_AddedSystemRunsWithoutInitialize ==
    [][(/\ sched_calls' = sched_calls + 1
        /\ schedRet'.op = "run"
        /\ \A i \in 1..Len(systems) : systems[i].f # "panic")
       => \A i \in 1..Len(systems) :
             systems[i].f = "read_query"
             => LET id == ci_get_by_type_id(components_info, "SomeComponent")[1].id
                    store == components_get(components, id)[1]
                IN  \E k \in 1..Len(sched_log') :
                       /\ sched_log'[k].system = i - 1
                       /\ sched_log'[k].event = "return"
                       /\ sched_log'[k].items
                             = [j \in 1..cs_len(store) |->
                                   [entity |-> store.entities[j],
                                    value |-> cs_get(store, store.entities[j]).val[1]]]]_vars

\* C25: if a system panics during Scheduler::run, none of the systems added
\* after it is executed in that run, and all the systems added before it
\* have run and returned.
C25_PanicEndsTheRun ==
    [][(sched_calls' = sched_calls + 1 /\ schedRet'.op = "run"
        /\ schedRet'.status = "panic")
       => \E p \in 1..Len(systems) :
             /\ Len(sched_log') >= 2 * (p - 1) + 1
             /\ \A i \in 1..(p - 1) :
                   /\ sched_log'[2 * i - 1].system = i - 1
                   /\ sched_log'[2 * i - 1].event = "run"
                   /\ sched_log'[2 * i].system = i - 1
                   /\ sched_log'[2 * i].event = "return"
             /\ \/ /\ Len(sched_log') = 2 * p - 1
                   /\ sched_log'[2 * p - 1].system = p - 1
                   /\ sched_log'[2 * p - 1].event = "not_initialized"
                \/ /\ Len(sched_log') = 2 * p
                   /\ sched_log'[2 * p - 1].system = p - 1
                   /\ sched_log'[2 * p - 1].event = "run"
                   /\ sched_log'[2 * p].system = p - 1
                   /\ sched_log'[2 * p].event = "panic"]_vars

\* the second of three initialized systems panicked in a run: the first has
\* returned, the third is a system that does not panic by itself
C25_Witness ==
    /\ schedRet = SchedRet("run", "panic")
    /\ Len(systems) = 3
    /\ systems[3].f # "panic"
    /\ systems[3].state # None
    /\ Len(sched_log) = 4
    /\ sched_log[2].event = "return"
    /\ sched_log[4].system = 1
    /\ sched_log[4].event = "panic"

(***************************************************************************)
(* Claims about Events and EventReader (checked under SpecEvents, C30      *)
(* under SpecEventsBulk)                                                  *)
(***************************************************************************)

\* C26: in every reachable state of the Events the start count of buffer a
\* plus its length is the start count of buffer b, and the start count of
\* buffer b plus its length is event_count; send appends the event at the end
\* of buffer b, adds one to event_count and leaves buffer a and the start
\* counts alone; update makes buffer a the previous buffer b and leaves
\* buffer b empty with the start count event_count, which it does not change.
C26_EventCountsLineUp ==
    /\ [](/\ events_a.start_event_count + Len(events_a.events)
                = events_b.start_event_count
          /\ events_b.start_event_count + Len(events_b.events) = event_count)
    /\ [][/\ evRet'.op = "send"
              => /\ events_b'.events = Append(events_b.events, evRet'.arg)
                 /\ events_b'.start_event_count = events_b.start_event_count
                 /\ event_count' = event_count + 1
                 /\ events_a' = events_a
          /\ evRet'.op = "update"
              => /\ events_a' = events_b
                 /\ events_b'.events = <<>>
                 /\ events_b'.start_event_count = event_count
                 /\ event_count' = event_count
                 /\ evRet'.debug_assert]_vars

\* an event was sent after an update that followed a send: both buffers hold
\* events
C26_Witness ==
    /\ evRet.op = "send"
    /\ ev_hist.updates >= 1
    /\ events_a.events # <<>>
    /\ events_b.events # <<>>
    /\ events_a.start_event_count > 0

\* C27: a reader that has not read before and reads when no update() came
\* after the first send is yielded the events sent so far, in the order they
\* were sent, and next() returns None when all of them were yielded; a read()
\* that follows a read() drained to its end, with no send between the two,
\* yields no event.
C27_FreshReaderYieldsAllSentThenNothing ==
    (it_open /\ ev_hist.recording)
       => /\ (it_read.fresh /\ ~ev_hist.updated_after_send)
              => /\ Len(it_read.got) <= Len(ev_sent)
                 /\ it_read.got = SubSeq(ev_sent, 1, Len(it_read.got))
                 /\ it_read.ended => it_read.got = ev_sent
          /\ it_read.quiet => it_read.got = <<>>

\* three events, not all equal, were sent with no update and read to the end
\* by a fresh reader; the read() after it has ended too
C27_Witness ==
    /\ it_open
    /\ ev_hist.recording
    /\ ~ev_hist.updated_after_send
    /\ it_read.quiet
    /\ it_read.ended
    /\ Len(ev_sent) = 3
    /\ ev_sent[1] # ev_sent[3]
    /\ ev_yielded = ev_sent

\* C28: while no update() has come without the reader having drained a
\* read() to its end since the update() before it, the events yielded to the
\* reader are the events sent, each once and in the order they were sent, up
\* to some point; they are all the events sent when the latest read() was
\* drained and no event was sent since. An event sent after the drained read
\* of its tick is among them.
C28_DrainingReaderLosesNoEvent ==
    (ev_hist.recording /\ ~ev_hist.missed)
       => /\ Len(ev_yielded) <= Len(ev_sent)
          /\ ev_yielded = SubSeq(ev_sent, 1, Len(ev_yielded))
          /\ ev_hist.clean => ev_yielded = ev_sent

\* the reader drained a read() in each of three ticks; the third event was
\* sent after the drained read of the second tick and was yielded from
\* buffer a by the read of the third
C28_Witness ==
    /\ ev_hist.recording
    /\ ~ev_hist.missed
    /\ ev_hist.updates = 2
    /\ ev_hist.clean
    /\ Len(ev_sent) = 3
    /\ ev_yielded = ev_sent
    /\ it_open
    /\ it_read.ended
    /\ it_read.got = <<ev_sent[3]>>
    /\ events_a.events = <<ev_sent[3]>>
    /\ events_a.start_event_count = 2

\* C29: a read() made with the cursor smaller than the start count of
\* buffer a yields the events held in buffer a followed by those held in
\* buffer b, in that order and no other event, and when it was drained the
\* cursor is event_count.
C29_LateReaderCatchesUpOnBothBuffers ==
    (it_open /\ ev_hist.recording /\ it_read.behind)
       => LET held == events_a.events \o events_b.events
          IN  /\ Len(it_read.got) <= Len(held)
              /\ it_read.got = SubSeq(held, 1, Len(it_read.got))
              /\ it_read.ended => /\ it_read.got = held
                                  /\ cursor = event_count

\* the reader made its first read() after two updates: the first event sent
\* is held by neither buffer, the second is in buffer a and the third in
\* buffer b, and the read() was drained
C29_Witness ==
    /\ it_open
    /\ ev_hist.recording
    /\ it_read.behind
    /\ it_read.fresh
    /\ it_read.ended
    /\ Len(ev_sent) = 3
    /\ ev_sent[1] # ev_sent[2]
    /\ events_a.events = <<ev_sent[2]>>
    /\ events_b.events = <<ev_sent[3]>>
    /\ it_read.got = <<ev_sent[2], ev_sent[3]>>

\* C30: while an iterator is alive the cursor is event_count less the number
\* of events the iterator has not yielded, so that it stands at the first
\* event not consumed and dropping the iterator leaves it there; next() adds
\* one to the cursor when it yields an event and nothing when it returns
\* None; count() returns the number of events left and last() the last of
\* them, and both leave the cursor at event_count; nth(n) returns the event n
\* places on and adds n + 1 to the cursor, or returns None and leaves the
\* cursor at event_count when fewer than n + 1 events were left.
C30_CursorAdvancesByTheEventsConsumed ==
    /\ [](it_open => cursor + Len(it_chain) = event_count)
    /\ [][/\ evRet'.op = "next"
              => /\ evRet'.ret = (IF it_chain = <<>> THEN None ELSE Some(Head(it_chain)))
                 /\ cursor' = (IF it_chain = <<>> THEN cursor ELSE cursor + 1)
          /\ evRet'.op = "drop" => cursor' = cursor
          /\ evRet'.op = "count"
              => /\ evRet'.ret = Some(Len(it_chain))
                 /\ cursor' = cursor + Len(it_chain)
                 /\ cursor' = event_count
          /\ evRet'.op = "last"
              => /\ evRet'.ret = (IF it_chain = <<>> THEN None
                                  ELSE Some(it_chain[Len(it_chain)]))
                 /\ cursor' = cursor + Len(it_chain)
                 /\ cursor' = event_count
          /\ evRet'.op = "nth"
              => IF evRet'.arg < Len(it_chain)
                 THEN /\ evRet'.ret = Some(it_chain[evRet'.arg + 1])
                      /\ cursor' = cursor + evRet'.arg + 1
                      /\ it_chain' = SubSeq(it_chain, evRet'.arg + 2, Len(it_chain))
                 ELSE /\ evRet'.ret = None
                      /\ cursor' = cursor + Len(it_chain)
                      /\ cursor' = event_count
                      /\ it_chain' = <<>>]_vars

\* nth(1) returned an event of an iterator that had three events left, two of
\* them in buffer a: the cursor stands one event before event_count
C30_Witness ==
    /\ it_open
    /\ evRet.op = "nth"
    /\ evRet.arg = 1
    /\ evRet.ret # None
    /\ Len(events_a.events) = 2
    /\ Len(it_chain) = 1
    /\ event_count = 3
    /\ cursor = 2

(***************************************************************************)
(* Further claims about BlobVec (checked under SpecBlob)                   *)
(***************************************************************************)

\* C36: swap_remove(i) with i >= len panics and leaves the buffer unchanged,
\* for every length, 0 and 1 included.
C36_SwapRemoveOutOfRangePanics ==
    [][(/\ blobRet'.op = "swap_remove"
        /\ blobRet'.index >= Len(data))
       => (/\ blobRet'.status = "panic"
           /\ data' = data)]_vars

(***************************************************************************)
(* Further claims about GenerationalIndexAllocator (checked under          *)
(* SpecAlloc)                                                              *)
(***************************************************************************)

C38_YieldedInSendOrderOnceEach ==
    /\ [](ev_hist.recording
            => \E f \in [1..Len(ev_yielded) -> 1..Len(ev_sent)] :
                  /\ \A k \in 1..Len(ev_yielded) : ev_sent[f[k]] = ev_yielded[k]
                  /\ \A j, k \in 1..Len(ev_yielded) : j < k => f[j] < f[k])
    /\ [][cursor' >= cursor]_vars

\* the reader was yielded the first event, dropped the iterator, missed the
\* second event, which two updates dropped, and was yielded the third
C38_Witness ==
    /\ ev_hist.recording
    /\ ev_hist.missed
    /\ Len(ev_sent) = 3
    /\ ev_sent[1] # ev_sent[2]
    /\ ev_sent[2] # ev_sent[3]
    /\ ev_yielded = <<ev_sent[1], ev_sent[3]>>
    /\ cursor = 3

\* C39 (under SpecEventsNew): for every reachable Events and every cursor
\* value c, EventIterator::new finds its debug assertion true: the number of
\* unread events it takes from the two buffers is the smaller of event_count
\* less c (0 when c is larger) and the number of events held; that number is
\* at most event_count, so that event_count - unread_count does not
\* underflow, and the cursor new leaves is at most event_count.
C39_NewCountsTheUnreadEvents ==
    [][evRet'.op = "iterator_new"
       => LET c == evRet'.arg
              held == Len(events_a.events) + Len(events_b.events)
              left == IF event_count > c THEN event_count - c ELSE 0
          IN  /\ evRet'.debug_assert
              /\ Len(it_chain') = (IF left < held THEN left ELSE held)
              /\ it_unread' = Len(it_chain')
              /\ it_unread' <= event_count
              /\ cursor' = event_count - it_unread'
              /\ cursor' >= 0
              /\ cursor' <= event_count]_vars

\* new was called with a cursor larger than event_count on an Events that
\* holds events in both buffers
C39_Witness ==
    /\ evRet.op = "iterator_new"
    /\ evRet.arg > event_count
    /\ events_a.events # <<>>
    /\ events_b.events # <<>>
    /\ it_open
    /\ it_chain = <<>>
    /\ cursor = event_count

(***************************************************************************)
(* Claims about EventRegistry (checked under SpecEventRegistry)            *)
(***************************************************************************)

\* C40: a call of update_events ends without error and makes one
\* Events::update call for every event type that is registered, however many
\* times, and whose Events resource is stored, and none for a type whose
\* resource is absent; the events buffer b held before the call are held by
\* buffer a after it, so that they can be read until the next call.
C40_UpdateEventsRotatesOncePerType ==
    [][evRet'.op = "update_events"
       => LET live == events_inserted
                         /\ \E k \in 1..Len(update_functions) :
                                update_functions[k] = "SomeEvent"
          IN  /\ er_rotations' = [E \in EventTypes |->
                                    IF E = "SomeEvent" /\ live THEN 1 ELSE 0]
              /\ live => /\ events_a' = events_b
                         /\ events_b' = EventSequence(<<>>, event_count)
              /\ ~live => UNCHANGED <<events_a, events_b>>
              /\ event_count' = event_count]_vars

\* C31: read_resource<T> and write_resource<T> return an error value, without
\* a panic and with the world unchanged, whenever no resource of type T is
\* stored (never inserted, or removed since); remove_resource<T> on an absent
\* T returns None
C31_AbsentResourceIsAnError ==
    [][LET T == resRet'.type
       IN  res_last[T].value = None =>
             /\ resRet'.op \in {"read_resource", "write_resource"} =>
                   (resRet'.status = "err" /\ resources' = resources)
             /\ resRet'.op = "remove_resource" =>
                   (resRet'.status = "ok" /\ resRet'.val = None
                    /\ resources' = resources)]_vars

\* read_resource has returned the error for a type whose stored value
\* remove_resource had returned before, while a guard of the other type is held
C31_Witness ==
    /\ resRet.op = "read_resource"
    /\ resRet.status = "err"
    /\ res_last[resRet.type].removed
    /\ res_last[resRet.type].value = None
    /\ ~NoGuard(resources)

C33_DistinctTypesBorrowTogether ==
    \A k \in 1..Len(rs_log) :
        LET e == rs_log[k]
        IN  (/\ e.f \in {"write_fps_read_events", "read_events_write_fps"}
             /\ \A T \in ResourceTypes :
                   e.start[T] # None /\ ~e.start[T][1].poisoned) =>
              /\ e.status = "ok"
              /\ e.held["FPS"][1].writer
              /\ e.held["Events"][1].readers = 1
              /\ Len(e.seen) = 2
              /\ \A j \in 1..2 :
                    e.seen[j] = ResValue(e.start, system_borrows(e.f)[j].type)

\* a run in which a system of each parameter order obtained both borrows
C33_Witness ==
    /\ Len(rs_log) = 2
    /\ {rs_log[1].f, rs_log[2].f} = {"write_fps_read_events", "read_events_write_fps"}
    /\ \A k \in 1..2 :
          /\ rs_log[k].status = "ok"
          /\ rs_log[k].held["FPS"][1].writer
          /\ rs_log[k].held["Events"][1].readers = 1

\* C34: resolving the parameters of a system that asks for conflicting access
\* to one resource type (Res<T> with ResMut<T>, two ResMut<T>, EventReader<E>
\* with EventWriter<E>) ends in a panic and never blocks
C34_ConflictingAccessFailsFast ==
    \A k \in 1..Len(rs_log) :
        rs_log[k].f \in ConflictingFns => rs_log[k].status = "panic"

\* C35: in a run, every system starts with no resource lock held, on the
\* resources and the components as the system before it left them, and its
\* guards give it the values it started on; a system that blocks blocks on
\* its own parameters
C35_LaterSystemSeesEarlierWrites ==
    \A k \in 1..Len(rs_log) :
        LET e == rs_log[k]
        IN  /\ NoGuard(e.start)
            /\ k > 1 =>
                  /\ rs_log[k - 1].status = "ok"
                  /\ e.start = rs_log[k - 1].end
                  /\ e.items_start = rs_log[k - 1].items_end
            /\ e.status = "ok" =>
                  /\ NoGuard(e.end)
                  /\ Len(e.seen) = Len(system_borrows(e.f))
                  /\ \A j \in 1..Len(e.seen) :
                        e.seen[j] = ResValue(e.start, system_borrows(e.f)[j].type)
            /\ e.status = "deadlock" => e.f \in ConflictingFns

\* a run in which the first system wrote a resource and a component and the
\* second system was given the values written
C35_Witness ==
    /\ Len(rs_log) = 2
    /\ rs_log[1].f = "write_query_write_fps"
    /\ rs_log[2].f = "read_query_read_fps"
    /\ rs_log[2].status = "ok"
    /\ rs_log[1].items_start # <<>>
    /\ rs_log[2].items_start # rs_log[1].items_start
    /\ rs_log[2].seen # rs_log[1].seen
    /\ rs_log[2].seen = <<ResValue(rs_log[1].end, "FPS")>>

====
